---- MODULE Spec2Model ----
(***************************************************************************)
(* Model of the AURIX reconciliation core (src/aurix/engine.py and         *)
(* src/aurix/config.py): the audit log, the two data cleaners, the         *)
(* account-level and transaction-level reconciliation and the variance     *)
(* summary; and of the analysis modules src/aurix/ai/ml_anomaly.py and     *)
(* src/aurix/ai/forecasting.py.                                            *)
(*                                                                         *)
(* Tables (pandas DataFrames) are sequences of records, one per row.       *)
(* Raw cells are the text of the cell; the empty text is a missing cell.   *)
(* Amounts are whole currency units.                                       *)
(***************************************************************************)
EXTENDS Integers, Sequences, FiniteSets, TLC

VARIABLES
    tolerance_amount,   \* self.config.tolerance_amount
    audit_log,          \* self.audit_log
    now,                \* the clock datetime.now() reads
    have,               \* which of the caller's results below exist yet
    df_manual_clean,    \* result of the last clean_manual_data that returned
    df_daftra_clean,    \* result of the last clean_daftra_data that returned
    coa_recon,          \* result of the last reconcile_coa_level
    txn_detail,         \* result of the last reconcile_transaction_level
    summary,            \* result of the last generate_variance_summary
    last,               \* the last call: operation, raw table given, raised or not
    entries,            \* AuditLogEntry objects a caller constructed directly
    z_anomalies,        \* result of the last detect_zscore_anomalies
    if_anomalies,       \* result of the last detect_isolation_forest_anomalies
    ml_anomalies,       \* result of the last detect_all
    forecast,           \* result of the last forecast_linear
    detect_runs,        \* the calls of detect_all so far: arguments, forest outcome, result
    monthly_variances,  \* result of the last aggregate_monthly_variances
    DATA_STORE,         \* tools._DATA_STORE, the module-level dict the tools read
    crew_context,       \* per AurixCrew: the arguments of its latest set_context
    tool_call           \* the last tool invocation: its crew, what it read, what it gave

vars == <<tolerance_amount, audit_log, now, have, df_manual_clean,
          df_daftra_clean, coa_recon, txn_detail, summary, last, entries,
          z_anomalies, if_anomalies, ml_anomalies, forecast, detect_runs,
          monthly_variances, DATA_STORE, crew_context, tool_call>>

\* What the engine and the audit entries keep, and what the callers of the
\* analysis modules (aurix/ai) keep.
engine_vars == <<tolerance_amount, audit_log, now, have, df_manual_clean,
                 df_daftra_clean, coa_recon, txn_detail, summary, entries>>

tool_vars == <<DATA_STORE, crew_context, tool_call>>

ai_vars == <<z_anomalies, if_anomalies, ml_anomalies, forecast, detect_runs,
             monthly_variances, tool_vars>>

(***************************************************************************)
(* Bounds of the model.                                                    *)
(***************************************************************************)
MaxRows == 2        \* rows of a raw sheet
MaxLog == 9         \* SpecEngine: operations are called while the log is shorter
MaxEntries == 2     \* SpecChecksum: entries constructed directly
MaxCoa == 24        \* SpecDetectAll: rows of the largest account table
MaxMonths == 4      \* SpecForecast: months of a monthly table
MaxAhead == 3       \* SpecForecast: periods ahead asked for
MaxAccounts == 3    \* SpecZScore: rows of an account table

(***************************************************************************)
(* Cells and their conversions.                                            *)
(***************************************************************************)
\* pandas' NaN, the value of a numeric cell that could not be converted.
NaN == -1000000

\* An empty cell of the sheet (read as NaN/None by pandas).
MissingCell == ""

\* pd.to_numeric(col, errors='coerce') on one cell: the number the text
\* denotes, NaN for a missing cell and for text that is no number.
NumericText ==
    [c \in {"0", "1", "2", "3", "1001", "1002", "200.00"} |->
        CASE c = "0" -> 0
          [] c = "200.00" -> 200
          [] c = "1" -> 1
          [] c = "2" -> 2
          [] c = "3" -> 3
          [] c = "1001" -> 1001
          [] c = "1002" -> 1002]

\* A conversion that gives 0 for text that is no number.
to_numeric_zero(cell) == IF cell \in DOMAIN NumericText THEN NumericText[cell] ELSE 0

to_numeric(cell) == IF cell \in DOMAIN NumericText THEN NumericText[cell] ELSE NaN

\* pd.to_datetime(col) on one cell (errors='raise' is the default): the
\* date as yyyymmdd; text outside the domain makes the call raise.
DateText ==
    [c \in {"2025-01-15", "2025-02-20"} |->
        CASE c = "2025-01-15" -> 20250115
          [] c = "2025-02-20" -> 20250220]

Parseable(cell) == cell \in DOMAIN DateText

to_datetime(cell) == DateText[cell]

(***************************************************************************)
(* Python values that occur in an audit entry's details, and json.dumps.   *)
(***************************************************************************)
PyInt(n) == [t |-> "int", n |-> n]
PyStr(s) == [t |-> "str", s |-> s]
PyNone == [t |-> "None"]
PyList(xs) == [t |-> "list", xs |-> xs]
PyTuple(xs) == [t |-> "tuple", xs |-> xs]
\* A value json cannot encode itself (Decimal, numpy.int64, datetime, ...):
\* json.dumps hands it to default=str and encodes the text str() returns.
PyObject(text) == [t |-> "object", text |-> text]

Quoted(s) == "\"" \o s \o "\""

RECURSIVE JoinComma(_)
JoinComma(parts) ==
    IF parts = <<>> THEN ""
    ELSE IF Len(parts) = 1 THEN parts[1]
    ELSE parts[1] \o ", " \o JoinComma(Tail(parts))

\* json encoding of one value; lists and tuples both become JSON arrays.
RECURSIVE JsonValue(_)
JsonValue(v) ==
    CASE v.t = "int" -> ToString(v.n)
      [] v.t = "str" -> Quoted(v.s)
      [] v.t = "None" -> "null"
      [] v.t = "object" -> Quoted(v.text)
      [] v.t \in {"list", "tuple"} ->
            "[" \o JoinComma([i \in 1..Len(v.xs) |-> JsonValue(v.xs[i])]) \o "]"

\* json encoding of a dict key: JSON keys are strings, an int key is written
\* as its decimal text.
JsonKey(k) ==
    CASE k.t = "int" -> Quoted(ToString(k.n))
      [] k.t = "str" -> Quoted(k.s)

\* json.dumps(details, default=str); a dict is the sequence of its
\* <<key, value>> items in insertion order.
json_dumps(details) ==
    "{" \o JoinComma([i \in 1..Len(details) |->
                        JsonKey(details[i][1]) \o ": " \o JsonValue(details[i][2])])
        \o "}"

(***************************************************************************)
(* AuditLogEntry (config.py).                                              *)
(***************************************************************************)
\* hashlib.sha256(content.encode()).hexdigest()[:16].  The digest is modelled
\* as collision-free: distinct contents have distinct digests.
sha256_hex16(content) == "sha256[:16](" \o content \o ")"

\* The f-string of __post_init__: the four fields, no separators.
Content(timestamp, action, details, user) ==
    timestamp \o action \o json_dumps(details) \o user

Checksum(timestamp, action, details, user) ==
    sha256_hex16(Content(timestamp, action, details, user))

DefaultUser == "System"

\* The dataclass constructor followed by __post_init__.
AuditLogEntry(timestamp, action, details, user) ==
    [timestamp |-> timestamp, action |-> action, details |-> details,
     user |-> user, checksum |-> Checksum(timestamp, action, details, user)]

\* datetime.now().isoformat() at clock reading t.
isoformat(t) == "2025-01-01T00:00:" \o ToString(t)

\* _log_action with the entry put at the front of the log.
log_action_insert_first(log, t, action, details) ==
    <<AuditLogEntry(isoformat(t), action, details, DefaultUser)>> \o log

\* ReconciliationEngine._log_action at clock reading t: the log it leaves.
log_action(log, t, action, details) ==
    Append(log, AuditLogEntry(isoformat(t), action, details, DefaultUser))

(***************************************************************************)
(* The raw tables handed to the cleaners.                                  *)
(***************************************************************************)
\* A row of a sheet; a is its <<debit, credit, mutation value>> cells (the
\* mutation value is a column of its own, not debit minus credit).
ManualRow(d, c, a) ==
    [Tanggal |-> d, COA_Daftra |-> c, Debit_SAR |-> a[1], Kredit_SAR |-> a[2],
     Nilai_Mutasi |-> a[3]]

DaftraRow(d, c, a) ==
    [Date |-> d, Account_Code |-> c, Debit |-> a[1], Credit |-> a[2],
     Nilai_Mutasi |-> a[3]]

\* Rows of a sheet: three dated rows over two accounts, a dated row whose
\* account code is no number, a row with an empty date cell, and a row
\* whose date cell is text that is no date.
RawManualRows ==
    {ManualRow("2025-01-15", "1001", <<"1", "0", "0">>),
     ManualRow("2025-01-15", "1001", <<"0", "2", "1">>),
     ManualRow("2025-01-15", "1002", <<"0", "2", "1">>),
     ManualRow("2025-01-15", "N/A", <<"0", "2", "1">>),
     ManualRow(MissingCell, "1002", <<"1", "0", "0">>),
     ManualRow("not-a-date", "1001", <<"0", "2", "1">>)}

RawDaftraRows ==
    {DaftraRow("2025-01-15", "1001", <<"1", "0", "0">>),
     DaftraRow("2025-01-15", "1001", <<"0", "2", "1">>),
     DaftraRow("2025-01-15", "1002", <<"0", "2", "1">>),
     DaftraRow("2025-01-15", "N/A", <<"0", "2", "1">>),
     DaftraRow(MissingCell, "1002", <<"1", "0", "0">>),
     DaftraRow("not-a-date", "1001", <<"0", "2", "1">>)}

\* The sheets the cleaners are given when operations are called in any
\* order: one that cleans to a row, one that loses a row, one that raises.
FewManualTables ==
    {<<ManualRow("2025-01-15", "1001", <<"0", "2", "1">>)>>,
     <<ManualRow(MissingCell, "1002", <<"1", "0", "0">>),
       ManualRow("2025-01-15", "1002", <<"0", "2", "1">>)>>,
     <<ManualRow("not-a-date", "1001", <<"0", "2", "1">>)>>}

FewDaftraTables ==
    {<<DaftraRow("2025-01-15", "1001", <<"1", "0", "0">>)>>,
     <<DaftraRow(MissingCell, "1002", <<"1", "0", "0">>),
       DaftraRow("2025-01-15", "1001", <<"0", "2", "1">>)>>,
     <<DaftraRow("not-a-date", "1001", <<"0", "2", "1">>)>>}

TablesOver(rows) == UNION {[1..k -> rows] : k \in 0..MaxRows}

(***************************************************************************)
(* Data cleaner (engine.py, clean_manual_data and clean_daftra_data).      *)
(***************************************************************************)
\* df.dropna(subset=[col]): the rows whose date cell is not missing.
dropna_Tanggal(df) == SelectSeq(df, LAMBDA r : r.Tanggal # MissingCell)
dropna_Date(df) == SelectSeq(df, LAMBDA r : r.Date # MissingCell)

\* pd.to_datetime raises on the first cell it cannot parse.
to_datetime_raises(cells) == \E i \in 1..Len(cells) : ~Parseable(cells[i])

\* The cleaned manual table: numeric columns converted, dates parsed,
\* _source stamped, _row_id = 1..N.
manual_cleaned(kept) ==
    [i \in 1..Len(kept) |->
        [Tanggal |-> to_datetime(kept[i].Tanggal),
         COA_Daftra |-> to_numeric(kept[i].COA_Daftra),
         Debit_SAR |-> to_numeric(kept[i].Debit_SAR),
         Kredit_SAR |-> to_numeric(kept[i].Kredit_SAR),
         Nilai_Mutasi |-> to_numeric(kept[i].Nilai_Mutasi),
         source |-> "MANUAL",
         row_id |-> i]]

daftra_cleaned(kept) ==
    [i \in 1..Len(kept) |->
        [Date |-> to_datetime(kept[i].Date),
         Account_Code |-> to_numeric(kept[i].Account_Code),
         Debit |-> to_numeric(kept[i].Debit),
         Credit |-> to_numeric(kept[i].Credit),
         Nilai_Mutasi |-> to_numeric(kept[i].Nilai_Mutasi),
         source |-> "DAFTRA",
         row_id |-> i]]

ManualColumns ==
    <<"Tanggal", "COA Daftra", "Debit-SAR", "Kredit-SAR", "Nilai Mutasi",
      "_source", "_row_id">>

DaftraColumns ==
    <<"Date", "Account Code", "Debit", "Credit", "Nilai Mutasi",
      "_source", "_row_id">>

PyStrList(names) == PyList([i \in 1..Len(names) |-> PyStr(names[i])])

\* A call that returned, or raised: what the caller observes of it.
\* df is the raw table a cleaner was given, the arguments of a call of an
\* analysis module, empty for the other operations.
Returned(op, df) == [op |-> op, raised |-> FALSE, df |-> df]
Raised(op, df) == [op |-> op, raised |-> TRUE, df |-> df]

clean_manual_data(df) ==
    /\ LET started == log_action(audit_log, now, "CLEAN_MANUAL_START",
                                 <<<<PyStr("rows"), PyInt(Len(df))>>>>)
           kept == dropna_Tanggal(df)
       IN  IF to_datetime_raises([i \in 1..Len(kept) |-> kept[i].Tanggal])
           THEN /\ audit_log' = started
                /\ now' = now + 1
                /\ last' = Raised("clean_manual_data", df)
                /\ UNCHANGED <<have, df_manual_clean>>
           ELSE /\ audit_log' =
                       log_action(started, now + 1, "CLEAN_MANUAL_END",
                           <<<<PyStr("rows_cleaned"), PyInt(Len(kept))>>,
                             <<PyStr("columns"), PyStrList(ManualColumns)>>>>)
                /\ now' = now + 2
                /\ df_manual_clean' = manual_cleaned(kept)
                /\ have' = have \cup {"df_manual_clean"}
                /\ last' = Returned("clean_manual_data", df)
    /\ UNCHANGED <<ai_vars, tolerance_amount, entries, txn_detail, df_daftra_clean, coa_recon, summary>>

clean_daftra_data(df) ==
    /\ LET started == log_action(audit_log, now, "CLEAN_DAFTRA_START",
                                 <<<<PyStr("rows"), PyInt(Len(df))>>>>)
           kept == dropna_Date(df)
       IN  IF to_datetime_raises([i \in 1..Len(kept) |-> kept[i].Date])
           THEN /\ audit_log' = started
                /\ now' = now + 1
                /\ last' = Raised("clean_daftra_data", df)
                /\ UNCHANGED <<have, df_daftra_clean>>
           ELSE /\ audit_log' =
                       log_action(started, now + 1, "CLEAN_DAFTRA_END",
                           <<<<PyStr("rows_cleaned"), PyInt(Len(kept))>>,
                             <<PyStr("columns"), PyStrList(DaftraColumns)>>>>)
                /\ now' = now + 2
                /\ df_daftra_clean' = daftra_cleaned(kept)
                /\ have' = have \cup {"df_daftra_clean"}
                /\ last' = Returned("clean_daftra_data", df)
    /\ UNCHANGED <<ai_vars, tolerance_amount, entries, txn_detail, df_manual_clean, coa_recon, summary>>

(***************************************************************************)
(* Account-level reconciliation (engine.py, reconcile_coa_level).          *)
(***************************************************************************)
\* ReconciliationStatus values (config.py), without the icons.
MATCHED == "Matched"
VARIANCE == "Variance"
UNMATCHED_MANUAL == "Only in Manual"
UNMATCHED_DAFTRA == "Only in Daftra"
TOLERANCE == "Within Tolerance"

Statuses == {MATCHED, VARIANCE, UNMATCHED_MANUAL, UNMATCHED_DAFTRA, TOLERANCE}

Abs(x) == IF x < 0 THEN -x ELSE x

isna(x) == x = NaN

fillna(x, value) == IF isna(x) THEN value ELSE x

\* Series.sum(): missing values are skipped.
RECURSIVE series_sum(_)
series_sum(xs) ==
    IF xs = <<>> THEN 0
    ELSE (IF isna(Head(xs)) THEN 0 ELSE Head(xs)) + series_sum(Tail(xs))

\* The ascending sequence of a finite set of numbers.
RECURSIVE Ascending(_)
Ascending(S) ==
    IF S = {} THEN <<>>
    ELSE LET m == CHOOSE x \in S : \A y \in S : x <= y
         IN  <<m>> \o Ascending(S \ {m})

Column(df, f(_)) == [i \in 1..Len(df) |-> f(df[i])]

\* groupby(key) keeps one group per key value in ascending key order and
\* leaves out the rows whose key is missing.
group_keys(keys) == Ascending({keys[i] : i \in 1..Len(keys)} \ {NaN})

\* df_manual.groupby('COA Daftra').agg(sum, sum, sum, first, count)
manual_agg(df) ==
    LET keys == group_keys(Column(df, LAMBDA r : r.COA_Daftra))
        grp(k) == SelectSeq(df, LAMBDA r : r.COA_Daftra = k)
    IN  [j \in 1..Len(keys) |->
            [COA |-> keys[j],
             Manual_Debit |-> series_sum(Column(grp(keys[j]), LAMBDA r : r.Debit_SAR)),
             Manual_Credit |-> series_sum(Column(grp(keys[j]), LAMBDA r : r.Kredit_SAR)),
             Manual_Net |-> series_sum(Column(grp(keys[j]), LAMBDA r : r.Nilai_Mutasi)),
             Manual_TxnCount |-> Len(grp(keys[j]))]]

\* df_daftra.groupby('Account Code').agg(sum, sum, sum, first, count)
daftra_agg(df) ==
    LET keys == group_keys(Column(df, LAMBDA r : r.Account_Code))
        grp(k) == SelectSeq(df, LAMBDA r : r.Account_Code = k)
    IN  [j \in 1..Len(keys) |->
            [COA |-> keys[j],
             Daftra_Debit |-> series_sum(Column(grp(keys[j]), LAMBDA r : r.Debit)),
             Daftra_Credit |-> series_sum(Column(grp(keys[j]), LAMBDA r : r.Credit)),
             Daftra_Net |-> series_sum(Column(grp(keys[j]), LAMBDA r : r.Nilai_Mutasi)),
             Daftra_TxnCount |-> Len(grp(keys[j]))]]

\* The merge with how='left': the manual side's keys only.
merge_left(magg, dagg) ==
    LET dkeys == {dagg[i].COA : i \in 1..Len(dagg)}
        d(k) == dagg[CHOOSE i \in 1..Len(dagg) : dagg[i].COA = k]
    IN  [j \in 1..Len(magg) |->
            LET k == magg[j].COA
            IN  [COA |-> k,
                 Manual_Debit |-> magg[j].Manual_Debit,
                 Manual_Credit |-> magg[j].Manual_Credit,
                 Manual_Net |-> magg[j].Manual_Net,
                 Manual_TxnCount |-> magg[j].Manual_TxnCount,
                 Daftra_Debit |-> IF k \in dkeys THEN d(k).Daftra_Debit ELSE NaN,
                 Daftra_Credit |-> IF k \in dkeys THEN d(k).Daftra_Credit ELSE NaN,
                 Daftra_Net |-> IF k \in dkeys THEN d(k).Daftra_Net ELSE NaN,
                 Daftra_TxnCount |-> IF k \in dkeys THEN d(k).Daftra_TxnCount ELSE NaN]]

\* pd.merge(manual_agg, daftra_agg, on='COA', how='outer'): one row per key
\* of either side in ascending key order, the absent side's fields missing.
merge_outer(magg, dagg) ==
    LET mkeys == {magg[i].COA : i \in 1..Len(magg)}
        dkeys == {dagg[i].COA : i \in 1..Len(dagg)}
        keys == Ascending(mkeys \cup dkeys)
        m(k) == magg[CHOOSE i \in 1..Len(magg) : magg[i].COA = k]
        d(k) == dagg[CHOOSE i \in 1..Len(dagg) : dagg[i].COA = k]
    IN  [j \in 1..Len(keys) |->
            LET k == keys[j]
            IN  [COA |-> k,
                 Manual_Debit |-> IF k \in mkeys THEN m(k).Manual_Debit ELSE NaN,
                 Manual_Credit |-> IF k \in mkeys THEN m(k).Manual_Credit ELSE NaN,
                 Manual_Net |-> IF k \in mkeys THEN m(k).Manual_Net ELSE NaN,
                 Manual_TxnCount |-> IF k \in mkeys THEN m(k).Manual_TxnCount ELSE NaN,
                 Daftra_Debit |-> IF k \in dkeys THEN d(k).Daftra_Debit ELSE NaN,
                 Daftra_Credit |-> IF k \in dkeys THEN d(k).Daftra_Credit ELSE NaN,
                 Daftra_Net |-> IF k \in dkeys THEN d(k).Daftra_Net ELSE NaN,
                 Daftra_TxnCount |-> IF k \in dkeys THEN d(k).Daftra_TxnCount ELSE NaN]]

\* for col in numeric_cols: recon[col] = recon[col].fillna(0)
fill_numeric_cols(row) ==
    [row EXCEPT !.Manual_Debit = fillna(@, 0), !.Manual_Credit = fillna(@, 0),
                !.Manual_Net = fillna(@, 0), !.Manual_TxnCount = fillna(@, 0),
                !.Daftra_Debit = fillna(@, 0), !.Daftra_Credit = fillna(@, 0),
                !.Daftra_Net = fillna(@, 0), !.Daftra_TxnCount = fillna(@, 0)]

\* The variance columns with the net variance taken as debit variance minus
\* credit variance.
with_variances_net_from_debit_credit(row) ==
    [COA |-> row.COA,
     Manual_Debit |-> row.Manual_Debit, Manual_Credit |-> row.Manual_Credit,
     Manual_Net |-> row.Manual_Net, Manual_TxnCount |-> row.Manual_TxnCount,
     Daftra_Debit |-> row.Daftra_Debit, Daftra_Credit |-> row.Daftra_Credit,
     Daftra_Net |-> row.Daftra_Net, Daftra_TxnCount |-> row.Daftra_TxnCount,
     Debit_Variance |-> row.Manual_Debit - row.Daftra_Debit,
     Credit_Variance |-> row.Manual_Credit - row.Daftra_Credit,
     Net_Variance |-> (row.Manual_Debit - row.Daftra_Debit)
                        - (row.Manual_Credit - row.Daftra_Credit),
     Abs_Variance |-> Abs((row.Manual_Debit - row.Daftra_Debit)
                            - (row.Manual_Credit - row.Daftra_Credit))]

\* The four variance columns.
with_variances(row) ==
    [COA |-> row.COA,
     Manual_Debit |-> row.Manual_Debit, Manual_Credit |-> row.Manual_Credit,
     Manual_Net |-> row.Manual_Net, Manual_TxnCount |-> row.Manual_TxnCount,
     Daftra_Debit |-> row.Daftra_Debit, Daftra_Credit |-> row.Daftra_Credit,
     Daftra_Net |-> row.Daftra_Net, Daftra_TxnCount |-> row.Daftra_TxnCount,
     Debit_Variance |-> row.Manual_Debit - row.Daftra_Debit,
     Credit_Variance |-> row.Manual_Credit - row.Daftra_Credit,
     Net_Variance |-> row.Manual_Net - row.Daftra_Net,
     Abs_Variance |-> Abs(row.Manual_Net - row.Daftra_Net)]

\* determine_status with the tolerance comparison ahead of the absent-side
\* checks.
determine_status_tolerance_first(row, T) ==
    IF Abs(row.Net_Variance) <= T
    THEN (IF row.Net_Variance = 0 THEN MATCHED ELSE TOLERANCE)
    ELSE IF isna(row.Manual_Net) \/ row.Manual_TxnCount = 0 THEN UNMATCHED_DAFTRA
    ELSE IF isna(row.Daftra_Net) \/ row.Daftra_TxnCount = 0 THEN UNMATCHED_MANUAL
    ELSE VARIANCE

\* determine_status(row) under tolerance T.
determine_status(row, T) ==
    IF isna(row.Manual_Net) \/ row.Manual_TxnCount = 0 THEN UNMATCHED_DAFTRA
    ELSE IF isna(row.Daftra_Net) \/ row.Daftra_TxnCount = 0 THEN UNMATCHED_MANUAL
    ELSE IF Abs(row.Net_Variance) <= T
         THEN (IF row.Net_Variance = 0 THEN MATCHED ELSE TOLERANCE)
    ELSE VARIANCE

with_status(row, T) ==
    [f \in DOMAIN row \cup {"Status"} |->
        IF f = "Status" THEN determine_status(row, T) ELSE row[f]]

\* The sort with ascending=True.
sort_values_asc(rows) ==
    {[i \in 1..Len(rows) |-> rows[p[i]]] :
        p \in {q \in [1..Len(rows) -> 1..Len(rows)] :
                 /\ \A i, j \in 1..Len(rows) : i # j => q[i] # q[j]
                 /\ \A i, j \in 1..Len(rows) :
                       i < j => rows[q[i]].Abs_Variance <= rows[q[j]].Abs_Variance}}

\* recon.sort_values('Abs_Variance', ascending=False): the orders the sort
\* can leave.  kind defaults to 'quicksort', which pandas documents as not
\* stable (only 'mergesort' and 'stable' are), so rows of equal
\* Abs_Variance come out in whatever order the numpy build's argsort gives.
sort_values_desc(rows) ==
    {[i \in 1..Len(rows) |-> rows[p[i]]] :
        p \in {q \in [1..Len(rows) -> 1..Len(rows)] :
                 /\ \A i, j \in 1..Len(rows) : i # j => q[i] # q[j]
                 /\ \A i, j \in 1..Len(rows) :
                       i < j => rows[q[i]].Abs_Variance >= rows[q[j]].Abs_Variance}}

\* The account tables reconcile_coa_level can return.
coa_level(manual, daftra, T) ==
    LET merged == merge_outer(manual_agg(manual), daftra_agg(daftra))
        recon == [j \in 1..Len(merged) |->
                    with_status(with_variances(fill_numeric_cols(merged[j])), T)]
    IN  sort_values_desc(recon)

CountStatus(recon, st) == Len(SelectSeq(recon, LAMBDA r : r.Status = st))

reconcile_coa_level ==
    /\ {"df_manual_clean", "df_daftra_clean"} \subseteq have
    /\ LET started == log_action(audit_log, now, "COA_RECON_START",
                          <<<<PyStr("manual_rows"), PyInt(Len(df_manual_clean))>>,
                            <<PyStr("daftra_rows"), PyInt(Len(df_daftra_clean))>>>>)
       IN  \E recon \in coa_level(df_manual_clean, df_daftra_clean, tolerance_amount) :
              /\ coa_recon' = recon
              /\ audit_log' =
                     log_action(started, now + 1, "COA_RECON_END",
                         <<<<PyStr("total_coa"), PyInt(Len(recon))>>,
                           <<PyStr("matched"), PyInt(CountStatus(recon, MATCHED))>>,
                           <<PyStr("variance"), PyInt(CountStatus(recon, VARIANCE))>>>>)
    /\ now' = now + 2
    /\ have' = have \cup {"coa_recon"}
    /\ last' = Returned("reconcile_coa_level", <<>>)
    /\ UNCHANGED <<ai_vars, tolerance_amount, entries, txn_detail, df_manual_clean, df_daftra_clean, summary>>

(***************************************************************************)
(* Transaction-level listing (engine.py, reconcile_transaction_level).     *)
(***************************************************************************)
\* The two projections into the common columns, tagged with their source.
manual_txn(df) ==
    [i \in 1..Len(df) |->
        [Date |-> df[i].Tanggal, COA |-> df[i].COA_Daftra,
         Debit |-> df[i].Debit_SAR, Credit |-> df[i].Kredit_SAR,
         Net |-> df[i].Nilai_Mutasi, RowID |-> df[i].row_id, Source |-> "MANUAL"]]

daftra_txn(df) ==
    [i \in 1..Len(df) |->
        [Date |-> df[i].Date, COA |-> df[i].Account_Code,
         Debit |-> df[i].Debit, Credit |-> df[i].Credit,
         Net |-> df[i].Nilai_Mutasi, RowID |-> df[i].row_id, Source |-> "DAFTRA"]]

\* Order of one sort column: ascending, missing values last.
col_before(a, b) == ~isna(a) /\ (isna(b) \/ a < b)

\* The order of a sort by account code and net amount only.
txn_before_coa_net(x, y) ==
    \/ col_before(x.COA, y.COA)
    \/ x.COA = y.COA /\ col_before(x.Net, y.Net)

\* Order of sort_values(['COA', 'Date', 'Net']).
txn_before(x, y) ==
    \/ col_before(x.COA, y.COA)
    \/ x.COA = y.COA /\ col_before(x.Date, y.Date)
    \/ x.COA = y.COA /\ x.Date = y.Date /\ col_before(x.Net, y.Net)

\* combined.sort_values(['COA', 'Date', 'Net']): ascending, rows of equal
\* keys in the order they had.
RECURSIVE sort_values_coa_date_net(_)
sort_values_coa_date_net(rows) ==
    IF rows = <<>> THEN <<>>
    ELSE LET rest == sort_values_coa_date_net(Tail(rows))
             x == Head(rows)
             ahead == SelectSeq(rest, LAMBDA r : txn_before(r, x))
             behind == SelectSeq(rest, LAMBDA r : ~txn_before(r, x))
         IN  ahead \o <<x>> \o behind

\* selected_coa: None, or the account code to keep.
NoFilter == PyNone

\* The listing with the filter applied to the manual table only.
txn_level_filter_manual_only(manual, daftra, selected_coa) ==
    LET m == IF selected_coa = NoFilter THEN manual
             ELSE SelectSeq(manual, LAMBDA r : r.COA_Daftra = selected_coa.n)
    IN  sort_values_coa_date_net(manual_txn(m) \o daftra_txn(daftra))

\* The listing reconcile_transaction_level returns.
txn_level(manual, daftra, selected_coa) ==
    LET m == IF selected_coa = NoFilter THEN manual
             ELSE SelectSeq(manual, LAMBDA r : r.COA_Daftra = selected_coa.n)
        d == IF selected_coa = NoFilter THEN daftra
             ELSE SelectSeq(daftra, LAMBDA r : r.Account_Code = selected_coa.n)
    IN  sort_values_coa_date_net(manual_txn(m) \o daftra_txn(d))

reconcile_transaction_level(selected_coa) ==
    /\ {"df_manual_clean", "df_daftra_clean"} \subseteq have
    /\ LET started == log_action(audit_log, now, "TXN_RECON_START",
                          <<<<PyStr("coa_filter"), selected_coa>>>>)
           combined == txn_level(df_manual_clean, df_daftra_clean, selected_coa)
       IN  /\ txn_detail' = combined
           /\ audit_log' =
                  log_action(started, now + 1, "TXN_RECON_END",
                      <<<<PyStr("total_transactions"), PyInt(Len(combined))>>>>)
    /\ now' = now + 2
    /\ have' = have \cup {"txn_detail"}
    /\ last' = Returned("reconcile_transaction_level", <<>>)
    /\ UNCHANGED <<ai_vars, tolerance_amount, entries, df_manual_clean, df_daftra_clean,
                   coa_recon, summary>>

(***************************************************************************)
(* Variance summary (engine.py, generate_variance_summary).                *)
(***************************************************************************)
\* The statuses that occur, each counted once (unique() for value_counts()).
value_counts_of_unique(recon) ==
    [st \in {recon[i].Status : i \in 1..Len(recon)} |-> 1]

\* coa_recon['Status'].value_counts().to_dict(): the statuses that occur,
\* each with the number of rows carrying it.
value_counts(recon) ==
    [st \in {recon[i].Status : i \in 1..Len(recon)} |-> CountStatus(recon, st)]

\* A lookup that gives a missing value for a missing key.
get_without_default(d, key, default) == IF key \in DOMAIN d THEN d[key] ELSE NaN

\* dict.get(key, default) on a dict held as a function.
get(d, key, default) == IF key \in DOMAIN d THEN d[key] ELSE default

\* d[key] on a dict held as a sequence of <<key, value>> items.
item(d, key) == d[CHOOSE i \in 1..Len(d) : d[i][1] = PyStr(key)][2]

variance_summary(recon) ==
    LET status_counts == value_counts(recon)
        total_manual_debit == series_sum(Column(recon, LAMBDA r : r.Manual_Debit))
        total_manual_credit == series_sum(Column(recon, LAMBDA r : r.Manual_Credit))
        total_daftra_debit == series_sum(Column(recon, LAMBDA r : r.Daftra_Debit))
        total_daftra_credit == series_sum(Column(recon, LAMBDA r : r.Daftra_Credit))
    IN  << <<PyStr("total_coa_accounts"), PyInt(Len(recon))>>,
           <<PyStr("matched_count"), PyInt(get(status_counts, MATCHED, 0))>>,
           <<PyStr("tolerance_count"), PyInt(get(status_counts, TOLERANCE, 0))>>,
           <<PyStr("variance_count"), PyInt(get(status_counts, VARIANCE, 0))>>,
           <<PyStr("unmatched_manual"), PyInt(get(status_counts, UNMATCHED_MANUAL, 0))>>,
           <<PyStr("unmatched_daftra"), PyInt(get(status_counts, UNMATCHED_DAFTRA, 0))>>,
           <<PyStr("total_manual_debit"), PyInt(total_manual_debit)>>,
           <<PyStr("total_manual_credit"), PyInt(total_manual_credit)>>,
           <<PyStr("total_daftra_debit"), PyInt(total_daftra_debit)>>,
           <<PyStr("total_daftra_credit"), PyInt(total_daftra_credit)>>,
           <<PyStr("total_debit_variance"),
             PyInt(total_manual_debit - total_daftra_debit)>>,
           <<PyStr("total_credit_variance"),
             PyInt(total_manual_credit - total_daftra_credit)>>,
           <<PyStr("total_net_variance"),
             PyInt(series_sum(Column(recon, LAMBDA r : r.Net_Variance)))>>,
           <<PyStr("largest_variance_coa"),
             IF Len(recon) > 0 THEN PyInt(recon[1].COA) ELSE PyNone>>,
           <<PyStr("largest_variance_amount"),
             IF Len(recon) > 0 THEN PyInt(recon[1].Abs_Variance) ELSE PyInt(0)>> >>

generate_variance_summary ==
    /\ "coa_recon" \in have
    /\ summary' = variance_summary(coa_recon)
    /\ audit_log' = log_action(audit_log, now, "SUMMARY_GENERATED", summary')
    /\ now' = now + 1
    /\ have' = have \cup {"summary"}
    /\ last' = Returned("generate_variance_summary", <<>>)
    /\ UNCHANGED <<ai_vars, tolerance_amount, entries, txn_detail, df_manual_clean, df_daftra_clean, coa_recon>>

(***************************************************************************)
(* The tools' data store (ai/tools.py) as the module is imported.          *)
(***************************************************************************)
\* _DATA_STORE = {"coa_recon": None, "txn_detail": None, "summary": None,
\*                "ml_anomalies": None}
EmptyStore ==
    [coa_recon |-> PyNone, txn_detail |-> PyNone, summary |-> PyNone,
     ml_anomalies |-> PyNone]

\* The AurixCrew instances of a process.
Crews == {"crew_a", "crew_b"}

NoToolCall ==
    [tool |-> "", crew |-> "", raised |-> FALSE, read |-> PyNone, own |-> PyNone,
     result |-> PyNone]

(***************************************************************************)
(* The engine after construction, and the run of the application.          *)
(***************************************************************************)
\* tolerance_amount values a ReconciliationConfig is built with; the
\* dataclass accepts any number.
Tolerances == {-1, 0, 1}

\* str(config), the details of ENGINE_INIT.
config_str(T) == "ReconciliationConfig(tolerance_amount=" \o ToString(T) \o ")"

\* ReconciliationEngine(config), nothing computed yet.
Constructed ==
    /\ audit_log = log_action(<<>>, 0, "ENGINE_INIT",
                       <<<<PyStr("config"), PyStr(config_str(tolerance_amount))>>>>)
    /\ now = 1
    /\ have = {}
    /\ df_manual_clean = <<>>
    /\ df_daftra_clean = <<>>
    /\ coa_recon = <<>>
    /\ txn_detail = <<>>
    /\ summary = <<>>
    /\ last = Returned("__init__", <<>>)

Init ==
    /\ tolerance_amount \in Tolerances
    /\ Constructed
    /\ entries = <<>>
    /\ z_anomalies = <<>>
    /\ if_anomalies = <<>>
    /\ ml_anomalies = <<>>
    /\ forecast = <<>>
    /\ detect_runs = <<>>
    /\ monthly_variances = <<>>
    /\ DATA_STORE = EmptyStore
    /\ crew_context = [crew \in Crews |-> PyNone]
    /\ tool_call = NoToolCall

\* main(): clean both sheets of the workbook, reconcile at both levels,
\* summarise; a call that raises ends the run.
CleanManual ==
    /\ last.op = "__init__"
    /\ \E df \in TablesOver(RawManualRows) : clean_manual_data(df)

CleanDaftra ==
    /\ last.op = "clean_manual_data" /\ ~last.raised
    /\ \E df \in TablesOver(RawDaftraRows) : clean_daftra_data(df)

ReconcileCoa ==
    /\ last.op = "clean_daftra_data" /\ ~last.raised
    /\ reconcile_coa_level

ReconcileTxn ==
    /\ last.op = "reconcile_coa_level"
    /\ reconcile_transaction_level(NoFilter)

Summarise ==
    /\ last.op = "reconcile_transaction_level"
    /\ generate_variance_summary

Next ==
    \/ CleanManual
    \/ CleanDaftra
    \/ ReconcileCoa
    \/ ReconcileTxn
    \/ Summarise

Spec == Init /\ [][Next]_vars

(***************************************************************************)
(* The engine's operations called in any order (a result must exist        *)
(* before it is passed on), while the log is shorter than MaxLog.          *)
(***************************************************************************)
CanCall == Len(audit_log) < MaxLog

CallCleanManual ==
    /\ CanCall
    /\ \E df \in FewManualTables : clean_manual_data(df)

CallCleanDaftra ==
    /\ CanCall
    /\ \E df \in FewDaftraTables : clean_daftra_data(df)

CallReconcileCoa == CanCall /\ reconcile_coa_level

CallReconcileTxn ==
    /\ CanCall
    /\ \E selected_coa \in {NoFilter, PyInt(1001)} :
          reconcile_transaction_level(selected_coa)

CallSummary == CanCall /\ generate_variance_summary

NextEngine ==
    \/ CallCleanManual
    \/ CallCleanDaftra
    \/ CallReconcileCoa
    \/ CallReconcileTxn
    \/ CallSummary

SpecEngine == Init /\ [][NextEngine]_vars

(***************************************************************************)
(* The run of the application followed by a caller that writes into the    *)
(* summary it was handed.  generate_variance_summary passes the dict it    *)
(* returns to _log_action, so the entry's details and the caller's summary *)
(* are one object.                                                         *)
(***************************************************************************)
\* d[key] = value on a dict: the value replaced in place, a new key appended.
setitem(d, key, value) ==
    IF \E i \in 1..Len(d) : d[i][1] = PyStr(key)
    THEN [i \in 1..Len(d) |-> IF d[i][1] = PyStr(key) THEN <<d[i][1], value>> ELSE d[i]]
    ELSE Append(d, <<PyStr(key), value>>)

\* The entry logged by the call that returned the summary holds that very
\* dict: a write into the summary is a write into its details, and the
\* checksum computed in __post_init__ stays as it was.
details_aliased(log, k, d) == [log EXCEPT ![k].details = d]

\* The entry of the latest generate_variance_summary call.
summary_entry(log) ==
    CHOOSE k \in 1..Len(log) :
        /\ log[k].action = "SUMMARY_GENERATED"
        /\ \A l \in 1..Len(log) : log[l].action = "SUMMARY_GENERATED" => l <= k

SummaryWrites ==
    {<<"matched_count", PyInt(7)>>, <<"reviewed_by", PyStr("auditor")>>}

\* summary[key] = value by the caller of generate_variance_summary
ModifySummary ==
    /\ last.op = "generate_variance_summary"
    /\ \E w \in SummaryWrites :
          /\ summary' = setitem(summary, w[1], w[2])
          /\ audit_log' = details_aliased(audit_log, summary_entry(audit_log), summary')
    /\ last' = Returned("summary.__setitem__", <<>>)
    /\ UNCHANGED <<ai_vars, tolerance_amount, now, have, df_manual_clean,
                   df_daftra_clean, coa_recon, txn_detail, entries>>

NextCaller ==
    \/ CleanManual
    \/ CleanDaftra
    \/ ReconcileCoa
    \/ ReconcileTxn
    \/ Summarise
    \/ ModifySummary

SpecCaller == Init /\ [][NextCaller]_vars

(***************************************************************************)
(* The cleaners on sheets with cells that are no numbers.                  *)
(***************************************************************************)
\* Dated rows with text in the debit, credit, mutation value and account
\* code cells, a row with a decimal string, and a row without date.
CoercionManualRows ==
    {ManualRow("2025-01-15", "1001", <<"200.00", "0", "2">>),
     ManualRow("2025-01-15", "1001", <<"abc", "1", "1">>),
     ManualRow("2025-02-20", "1002", <<"1", "-", "n/a">>),
     ManualRow("2025-01-15", "N/A", <<"0", "2", "1">>),
     ManualRow(MissingCell, "1002", <<"abc", "0", "0">>)}

CoercionDaftraRows ==
    {DaftraRow("2025-01-15", "1001", <<"200.00", "0", "2">>),
     DaftraRow("2025-01-15", "1001", <<"abc", "1", "1">>),
     DaftraRow("2025-02-20", "1002", <<"1", "-", "n/a">>),
     DaftraRow("2025-01-15", "N/A", <<"0", "2", "1">>),
     DaftraRow(MissingCell, "1002", <<"abc", "0", "0">>)}

\* One call of a cleaner on a fresh engine.
CoerceManual ==
    /\ last.op = "__init__"
    /\ \E df \in TablesOver(CoercionManualRows) : clean_manual_data(df)

CoerceDaftra ==
    /\ last.op = "__init__"
    /\ \E df \in TablesOver(CoercionDaftraRows) : clean_daftra_data(df)

NextCoerce == CoerceManual \/ CoerceDaftra

SpecCoerce == Init /\ [][NextCoerce]_vars

(***************************************************************************)
(* The transactions tab (ui/tab_transactions.py): both sheets cleaned,     *)
(* then the listing of one selected account, or of all accounts.           *)
(***************************************************************************)
\* Rows with two dates, two accounts, two net amounts on one account and
\* date, and an account code that is no number.
TxnManualRows ==
    {ManualRow("2025-01-15", "1001", <<"1", "0", "0">>),
     ManualRow("2025-01-15", "1001", <<"0", "2", "1">>),
     ManualRow("2025-02-20", "1001", <<"1", "0", "0">>),
     ManualRow("2025-01-15", "1002", <<"0", "2", "1">>),
     ManualRow("2025-01-15", "N/A", <<"0", "2", "1">>)}

TxnDaftraRows ==
    {DaftraRow("2025-01-15", "1001", <<"0", "2", "1">>),
     DaftraRow("2025-02-20", "1002", <<"1", "0", "0">>),
     DaftraRow("2025-01-15", "N/A", <<"0", "2", "1">>)}

CoaFilters == {NoFilter, PyInt(1001), PyInt(1002)}

TabCleanManual ==
    /\ last.op = "__init__"
    /\ \E df \in TablesOver(TxnManualRows) : clean_manual_data(df)

TabCleanDaftra ==
    /\ last.op = "clean_manual_data"
    /\ \E df \in TablesOver(TxnDaftraRows) : clean_daftra_data(df)

TabListTransactions ==
    /\ last.op = "clean_daftra_data"
    /\ \E selected_coa \in CoaFilters : reconcile_transaction_level(selected_coa)

NextTxn ==
    \/ TabCleanManual
    \/ TabCleanDaftra
    \/ TabListTransactions

SpecTxn == Init /\ [][NextTxn]_vars

(***************************************************************************)
(* Anomaly detection (aurix/ai/ml_anomaly.py).  An account table is a      *)
(* record of its column names and its rows; a row has a cell for every     *)
(* column name, read only for the columns the table has.  Amounts of       *)
(* these tables are in tenths of a currency unit, thresholds in tenths.    *)
(***************************************************************************)
AccountColumns ==
    {"COA", "Net_Variance", "Debit_Variance", "Credit_Variance",
     "Manual_TxnCount", "Daftra_TxnCount", "Abs_Variance"}

ZScoreColumns == <<"Net_Variance", "Debit_Variance", "Credit_Variance">>

\* Series.dropna()
dropna(values) == SelectSeq(values, LAMBDA v : ~isna(v))

RECURSIVE sum_of_squares(_)
sum_of_squares(xs) ==
    IF xs = <<>> THEN 0 ELSE Head(xs) * Head(xs) + sum_of_squares(Tail(xs))

\* An amount with no fraction of a unit: float sums of such amounts are
\* exact.
IsWhole(v) == v % 10 = 0

\* int(row['COA']) if pd.notna(row.get('COA')) else "N/A"
coa_of(df, row) ==
    IF "COA" \in df.columns /\ ~isna(row.COA) THEN PyInt(row.COA) ELSE PyStr("N/A")

\* |z| < threshold / 10 for z * z = zsq[1] / zsq[2].
exceeds_inverted(zsq, threshold) ==
    threshold > 0 /\ 100 * zsq[1] < threshold * threshold * zsq[2]

\* |z| > threshold / 10 for z * z = zsq[1] / zsq[2].
exceeds(zsq, threshold) ==
    threshold < 0 \/ 100 * zsq[1] > threshold * threshold * zsq[2]

\* The findings of one pass of the column loop.  n * spread is n * (n - 1)
\* times the variance, so std_val * std_val = spread / (n * (n - 1)) and
\* z * z = (n * v - total)^2 * (n - 1) / (n * spread).  When all values are
\* equal, std_val is 0 if the float mean is exact; when the float sum of
\* amounts with a fraction rounds (rounds: [0.1, 0.1, 0.1] has mean
\* 0.10000000000000002), std_val is a tiny positive number and every
\* z * z is (n - 1) / n.
zscore_column(df, col, threshold, rounds) ==
    IF col \notin df.columns THEN <<>>
    ELSE
    LET cells == [i \in 1..Len(df.rows) |-> df.rows[i][col]]
        values == dropna(cells)
        n == Len(values)
        total == series_sum(values)
        spread == n * sum_of_squares(values) - total * total
        inexact == rounds /\ \E i \in 1..n : ~IsWhole(values[i])
        zsq(v) == IF spread = 0 THEN <<n - 1, n>>
                  ELSE <<(n * v - total) * (n * v - total) * (n - 1), n * spread>>
        outlier_mask(i) == ~isna(cells[i]) /\ exceeds(zsq(cells[i]), threshold)
        idx == SelectSeq([i \in 1..Len(cells) |-> i], outlier_mask)
    IN  IF n < 3 THEN <<>>
        ELSE IF spread = 0 /\ ~inexact THEN <<>>
        ELSE [k \in 1..Len(idx) |->
                [severity |-> IF exceeds(zsq(cells[idx[k]]), 35) THEN "HIGH" ELSE "MEDIUM",
                 type |-> "Z-Score Outlier (" \o col \o ")",
                 coa |-> coa_of(df, df.rows[idx[k]]),
                 amount |-> cells[idx[k]],
                 method |-> "z_score"]]

\* MLAnomalyDetector.detect_zscore_anomalies(coa_recon, threshold): the
\* findings of the three columns in turn.
detect_zscore_anomalies(df, threshold, rounds) ==
    zscore_column(df, ZScoreColumns[1], threshold, rounds)
        \o zscore_column(df, ZScoreColumns[2], threshold, rounds)
        \o zscore_column(df, ZScoreColumns[3], threshold, rounds)

\* detect_isolation_forest_anomalies(coa_recon).  Which rows the fitted
\* forest predicts as outliers, and their scores, are not computed here:
\* flagged is the sequence of the flagged row positions in ascending score
\* order (the final sort), of which the first high ones score below -0.3.
IsolationFeatures ==
    {"Net_Variance", "Debit_Variance", "Credit_Variance",
     "Manual_TxnCount", "Daftra_TxnCount", "Abs_Variance"}

detect_isolation_forest_anomalies(df, flagged, high) ==
    IF Cardinality(IsolationFeatures \cap df.columns) < 2 \/ Len(df.rows) < 5
    THEN <<>>
    ELSE [k \in 1..Len(flagged) |->
            [severity |-> IF k <= high THEN "HIGH" ELSE "MEDIUM",
             type |-> "Isolation Forest Anomaly",
             coa |-> coa_of(df, df.rows[flagged[k]]),
             amount |-> IF "Net_Variance" \in df.columns
                        THEN df.rows[flagged[k]].Net_Variance ELSE 0,
             method |-> "isolation_forest"]]

\* severity_rank.get(severity, 3)
severity_rank(severity) ==
    CASE severity = "HIGH" -> 0
      [] severity = "MEDIUM" -> 1
      [] severity = "LOW" -> 2
      [] OTHER -> 3

anomaly_key(a) == <<a.coa, a.method>>

\* One pass of the loop with the first finding of a key kept.
seen_update_keep_first(seen, a) ==
    IF \E p \in 1..Len(seen) : anomaly_key(seen[p]) = anomaly_key(a)
    THEN seen
    ELSE Append(seen, a)

\* One pass of the deduplication loop.  seen is the dict's values in the
\* insertion order of their keys; replacing a key's value keeps its place.
seen_update(seen, a) ==
    IF \E p \in 1..Len(seen) : anomaly_key(seen[p]) = anomaly_key(a)
    THEN LET p == CHOOSE q \in 1..Len(seen) : anomaly_key(seen[q]) = anomaly_key(a)
         IN  IF severity_rank(a.severity) < severity_rank(seen[p].severity)
             THEN [seen EXCEPT ![p] = a]
             ELSE seen
    ELSE Append(seen, a)

RECURSIVE seen_values(_)
seen_values(all_anomalies) ==
    IF all_anomalies = <<>> THEN <<>>
    ELSE seen_update(seen_values(SubSeq(all_anomalies, 1, Len(all_anomalies) - 1)),
                     all_anomalies[Len(all_anomalies)])

\* The findings in the order they have.
unsorted(findings) == findings

\* sorted(seen.values(), key=severity rank): stable.
sorted_by_severity(findings) ==
    SelectSeq(findings, LAMBDA a : severity_rank(a.severity) = 0)
        \o SelectSeq(findings, LAMBDA a : severity_rank(a.severity) = 1)
        \o SelectSeq(findings, LAMBDA a : severity_rank(a.severity) = 2)
        \o SelectSeq(findings, LAMBDA a : severity_rank(a.severity) = 3)

TopFindings == 15

DefaultThreshold == 25

\* The merge of detect_all: z_anomalies + if_anomalies, deduplicated,
\* sorted, result[:15].
merge_anomalies(z, isolated) ==
    LET result == sorted_by_severity(seen_values(z \o isolated))
    IN  SubSeq(result, 1, IF Len(result) < TopFindings THEN Len(result) ELSE TopFindings)

\* MLAnomalyDetector(contamination=0.1), in percent.
DefaultContamination == 10

\* A forest fitted without a seed: any outcome on any run.
unseeded(runs, df, contamination, flagged, high) == TRUE

\* IsolationForest(contamination=self.contamination, random_state=42): with
\* the seed fixed, the forest's outcome is a function of the table and the
\* contamination, so a run agrees with every earlier run on the same two.
random_state_42(runs, df, contamination, flagged, high) ==
    \A i \in 1..Len(runs) :
        (runs[i].coa_recon = df /\ runs[i].contamination = contamination)
            => (runs[i].flagged = flagged /\ runs[i].high = high)

\* MLAnomalyDetector(contamination).detect_all(coa_recon)
detect_all(df, contamination, rounds, flagged, high) ==
    /\ random_state_42(detect_runs, df, contamination, flagged, high)
    /\ z_anomalies' = detect_zscore_anomalies(df, DefaultThreshold, rounds)
    /\ if_anomalies' = detect_isolation_forest_anomalies(df, flagged, high)
    /\ ml_anomalies' = merge_anomalies(z_anomalies', if_anomalies')
    /\ detect_runs' = Append(detect_runs,
                          [coa_recon |-> df, contamination |-> contamination,
                           flagged |-> flagged, high |-> high,
                           result |-> ml_anomalies'])
    /\ last' = Returned("detect_all", df)
    /\ UNCHANGED <<engine_vars, forecast, monthly_variances, tool_vars>>

(***************************************************************************)
(* detect_zscore_anomalies called on account tables of up to MaxAccounts   *)
(* rows, with any threshold.                                               *)
(***************************************************************************)
\* Cells of a row: net variances 0, 0.1 and 1.0 and a missing one, debit
\* variances 0 and 1.0, a missing account code; the credit variance of
\* every row is 0.
ZScoreCells ==
    {[Net_Variance |-> 0, Debit_Variance |-> 0, coded |-> TRUE],
     [Net_Variance |-> 1, Debit_Variance |-> 0, coded |-> TRUE],
     [Net_Variance |-> 10, Debit_Variance |-> 0, coded |-> TRUE],
     [Net_Variance |-> 0, Debit_Variance |-> 10, coded |-> TRUE],
     [Net_Variance |-> NaN, Debit_Variance |-> 10, coded |-> FALSE]}

\* Row i of an account table; account codes are distinct.
account_row(i, cells) ==
    [COA |-> IF cells.coded THEN 1000 + i ELSE NaN,
     Net_Variance |-> cells.Net_Variance,
     Debit_Variance |-> cells.Debit_Variance,
     Credit_Variance |-> 0,
     Manual_TxnCount |-> 1,
     Daftra_TxnCount |-> 1,
     Abs_Variance |-> IF isna(cells.Net_Variance) THEN NaN ELSE Abs(cells.Net_Variance)]

AccountTablesOver(cellset, k) ==
    {[columns |-> cols, rows |-> [i \in 1..k |-> account_row(i, f[i])]] :
        f \in [1..k -> cellset],
        cols \in {AccountColumns, AccountColumns \ {"Debit_Variance"}}}

ZScoreTables == UNION {AccountTablesOver(ZScoreCells, k) : k \in 0..MaxAccounts}

\* Thresholds 0, 0.5, 1.0 and the default 2.5.
Thresholds == {0, 5, 10, 25}

\* One call on a fresh run.
DetectZScore ==
    /\ last.op = "__init__"
    /\ \E df \in ZScoreTables, threshold \in Thresholds, rounds \in BOOLEAN :
        /\ z_anomalies' = detect_zscore_anomalies(df, threshold, rounds)
        /\ last' = Returned("detect_zscore_anomalies",
                       [coa_recon |-> df, threshold |-> threshold, rounds |-> rounds])
        /\ UNCHANGED <<engine_vars, if_anomalies, ml_anomalies, forecast, detect_runs,
                       monthly_variances, tool_vars>>

NextZScore == DetectZScore

SpecZScore == Init /\ [][NextZScore]_vars

(***************************************************************************)
(* detect_all called on account tables of 4, 5, 16 and MaxCoa rows.  With  *)
(* contamination up to 0.5 the forest flags at most half of the rows.      *)
(***************************************************************************)
\* A table of n accounts: net variance 1.0 on the rows net_rows, debit
\* variance 1.0 on the rows debit_rows, 0 elsewhere; no account code on the
\* rows uncoded.
outlier_table(n, net_rows, debit_rows, uncoded) ==
    [columns |-> AccountColumns,
     rows |-> [i \in 1..n |->
        account_row(i, [Net_Variance |-> IF i \in net_rows THEN 10 ELSE 0,
                        Debit_Variance |-> IF i \in debit_rows THEN 10 ELSE 0,
                        coded |-> i \notin uncoded])]]

DetectAllTables ==
    {outlier_table(n, net_rows, debit_rows, uncoded) :
        n \in {4, 5, 16, MaxCoa},
        net_rows \in {{}, {1}, {1, 2}, {1, 2, 3}},
        debit_rows \in {{}, {1}, {1, 2}, {4, 5, 6}},
        uncoded \in {{}, {2, 3}}}

\* The flagged rows in score order: the first m rows, or the last m rows
\* from the bottom up.
flagged_rows(n, m, from_bottom) ==
    [k \in 1..m |-> IF from_bottom THEN n + 1 - k ELSE k]

\* One call on a fresh run.
DetectAll ==
    /\ last.op = "__init__"
    /\ \E df \in DetectAllTables, rounds \in BOOLEAN, from_bottom \in BOOLEAN :
          \E m \in 0..(Len(df.rows) \div 2) :
             \E high \in 0..m :
                detect_all(df, DefaultContamination, rounds,
                           flagged_rows(Len(df.rows), m, from_bottom), high)

NextDetectAll == DetectAll

SpecDetectAll == Init /\ [][NextDetectAll]_vars

(***************************************************************************)
(* detect_all run twice, on the same table or on another, by detectors of  *)
(* contamination 0.1 or 0.5.                                               *)
(***************************************************************************)
RerunTables ==
    {outlier_table(5, {1}, {}, {}),
     outlier_table(16, {1}, {1, 2}, {}),
     outlier_table(16, {1, 2}, {1}, {2, 3})}

Contaminations == {DefaultContamination, 50}

\* A run whose forest flags up to 2 rows.
DetectRun ==
    \E df \in RerunTables, contamination \in Contaminations,
       rounds \in BOOLEAN, from_bottom \in BOOLEAN :
          \E m \in 0..2 :
             \E high \in 0..m :
                detect_all(df, contamination, rounds,
                           flagged_rows(Len(df.rows), m, from_bottom), high)

DetectFirst == last.op = "__init__" /\ DetectRun

DetectAgain == last.op = "detect_all" /\ Len(detect_runs) = 1 /\ DetectRun

NextDetectTwice == DetectFirst \/ DetectAgain

SpecDetectTwice == Init /\ [][NextDetectTwice]_vars

(***************************************************************************)
(* Forecasting (aurix/ai/forecasting.py, forecast_linear).  A monthly      *)
(* table is a sequence of rows; a month (pandas Period) is its number of   *)
(* months since year 0; a float result is an exact fraction <<num, den>>   *)
(* with den > 0.                                                           *)
(***************************************************************************)
\* str(Period): "2024-01"
period_str(ym) ==
    ToString(ym \div 12) \o "-"
        \o (IF (ym % 12) + 1 < 10 THEN "0" ELSE "") \o ToString((ym % 12) + 1)

RECURSIVE dot_arange(_)
\* sum over i of i * y[i] for i = 0 .. len(y) - 1 (X = np.arange(len(y)))
dot_arange(y) ==
    IF y = <<>> THEN 0
    ELSE dot_arange(SubSeq(y, 1, Len(y) - 1)) + (Len(y) - 1) * y[Len(y)]

\* LinearRegression().fit(X, y) for X = 0 .. n - 1: the least-squares line
\* has slope cov / var_x and passes through the means.
fit(y) ==
    LET n == Len(y)
        sum_x == (n * (n - 1)) \div 2
        sum_xx == dot_arange([i \in 1..n |-> i - 1])
        sum_y == series_sum(y)
    IN  [n |-> n, sum_x |-> sum_x, sum_y |-> sum_y,
         cov |-> n * dot_arange(y) - sum_x * sum_y,
         var_x |-> n * sum_xx - sum_x * sum_x,
         var_y |-> n * sum_of_squares(y) - sum_y * sum_y]

\* model.predict at x
predict(model, x) ==
    <<model.sum_y * model.var_x - model.cov * model.sum_x + model.n * model.cov * x,
      model.n * model.var_x>>

\* float(val), the projected value as it is
unfloored(val) == val

\* max(0, float(val))
floor_at_zero(val) == IF val[1] < 0 THEN <<0, 1>> ELSE val

\* abs(slope) < y.mean() * 0.01, then the sign of the slope
trend_direction(model) ==
    IF 100 * model.n * Abs(model.cov) < model.sum_y * model.var_x THEN "stable"
    ELSE IF model.cov > 0 THEN "increasing"
    ELSE "decreasing"

\* model.score(X, y): the coefficient of determination, 1.0 for a constant
\* target.
r_squared(model) ==
    IF model.var_y = 0 THEN <<1, 1>>
    ELSE <<model.cov * model.cov, model.var_x * model.var_y>>

InsufficientData == [error |-> "Insufficient data (need at least 3 months)"]

\* A length test that lets a table of 2 months through.
insufficient_below_two(monthly_df) == Len(monthly_df) < 2

\* len(monthly_df) < 3
insufficient(monthly_df) == Len(monthly_df) < 3

\* The dict forecast_linear returns for at least 3 months and at least one
\* period ahead.
linear_forecast(monthly_df, target_col, periods_ahead) ==
    LET y == [i \in 1..Len(monthly_df) |-> monthly_df[i][target_col]]
        model == fit(y)
        last_period == monthly_df[Len(monthly_df)].YearMonth
    IN  [historical |->
            [i \in 1..Len(monthly_df) |->
                [month |-> period_str(monthly_df[i].YearMonth), value |-> <<y[i], 1>>]],
         forecast |->
            [j \in 1..periods_ahead |->
                [month |-> period_str(last_period + j),
                 value |-> floor_at_zero(predict(model, Len(y) + j - 1)),
                 type |-> "forecast"]],
         trend_direction |-> trend_direction(model),
         slope |-> <<model.cov, model.var_x>>,
         r_squared |-> r_squared(model)]

\* VarianceForecaster.forecast_linear(monthly_df, target_col, periods_ahead).
\* With periods_ahead < 1 future_X has no row and model.predict raises
\* ValueError (sklearn takes at least one sample).
forecast_linear(monthly_df, target_col, periods_ahead) ==
    LET args == [monthly_df |-> monthly_df, target_col |-> target_col,
                 periods_ahead |-> periods_ahead]
    IN  /\ IF insufficient(monthly_df)
           THEN forecast' = InsufficientData /\ last' = Returned("forecast_linear", args)
           ELSE IF periods_ahead < 1
           THEN forecast' = forecast /\ last' = Raised("forecast_linear", args)
           ELSE /\ forecast' = linear_forecast(monthly_df, target_col, periods_ahead)
                /\ last' = Returned("forecast_linear", args)
        /\ UNCHANGED <<engine_vars, z_anomalies, if_anomalies, ml_anomalies, detect_runs,
                       monthly_variances, tool_vars>>

\* Monthly tables of up to MaxMonths consecutive months from 2024-01, and
\* 0 to MaxAhead periods ahead.
MonthlyValues == {0, 1, 5}

MonthlyTables ==
    UNION {{[i \in 1..k |->
                [YearMonth |-> 2024 * 12 + i - 1,
                 total_abs_variance |-> f[i],
                 match_rate |-> 100 - 20 * f[i]]] :
            f \in [1..k -> MonthlyValues]} : k \in 0..MaxMonths}

TargetColumns == {"total_abs_variance", "match_rate"}

\* One call on a fresh run.
ForecastLinear ==
    /\ last.op = "__init__"
    /\ \E monthly_df \in MonthlyTables, target_col \in TargetColumns,
          periods_ahead \in 0..MaxAhead :
            forecast_linear(monthly_df, target_col, periods_ahead)

NextForecast == ForecastLinear

SpecForecast == Init /\ [][NextForecast]_vars

(***************************************************************************)
(* Monthly aggregation (ai/forecasting.py, aggregate_monthly_variances).   *)
(***************************************************************************)
\* pd.to_datetime(col).dt.to_period('M') of a date yyyymmdd: the month, as
\* year * 12 + month - 1; a missing date has no period.
to_period_M(d) ==
    IF isna(d) THEN NaN ELSE (d \div 10000) * 12 + ((d \div 100) % 100) - 1

\* sorted(set(df_m['_YearMonth'].dropna()) | set(df_d['_YearMonth'].dropna()))
all_months(df_m, df_d) ==
    Ascending(({to_period_M(df_m[i].Tanggal) : i \in 1..Len(df_m)}
                 \cup {to_period_M(df_d[i].Date) : i \in 1..Len(df_d)}) \ {NaN})

\* m_slice.groupby('COA Daftra').agg(sum, sum, sum), columns renamed
m_agg(m_slice) ==
    LET keys == group_keys(Column(m_slice, LAMBDA r : r.COA_Daftra))
        grp(k) == SelectSeq(m_slice, LAMBDA r : r.COA_Daftra = k)
    IN  [j \in 1..Len(keys) |->
            [COA |-> keys[j],
             M_Debit |-> series_sum(Column(grp(keys[j]), LAMBDA r : r.Debit_SAR)),
             M_Credit |-> series_sum(Column(grp(keys[j]), LAMBDA r : r.Kredit_SAR)),
             M_Net |-> series_sum(Column(grp(keys[j]), LAMBDA r : r.Nilai_Mutasi))]]

\* d_slice.groupby('Account Code').agg(sum, sum, sum), columns renamed
d_agg(d_slice) ==
    LET keys == group_keys(Column(d_slice, LAMBDA r : r.Account_Code))
        grp(k) == SelectSeq(d_slice, LAMBDA r : r.Account_Code = k)
    IN  [j \in 1..Len(keys) |->
            [COA |-> keys[j],
             D_Debit |-> series_sum(Column(grp(keys[j]), LAMBDA r : r.Debit)),
             D_Credit |-> series_sum(Column(grp(keys[j]), LAMBDA r : r.Credit)),
             D_Net |-> series_sum(Column(grp(keys[j]), LAMBDA r : r.Nilai_Mutasi))]]

\* pd.merge(m_agg, d_agg, on='COA', how='outer').fillna(0) with the two
\* variance columns.
month_merged(magg, dagg) ==
    LET mkeys == {magg[i].COA : i \in 1..Len(magg)}
        dkeys == {dagg[i].COA : i \in 1..Len(dagg)}
        keys == Ascending(mkeys \cup dkeys)
        m(k) == magg[CHOOSE i \in 1..Len(magg) : magg[i].COA = k]
        d(k) == dagg[CHOOSE i \in 1..Len(dagg) : dagg[i].COA = k]
    IN  [j \in 1..Len(keys) |->
            LET k == keys[j]
                M_Net == IF k \in mkeys THEN m(k).M_Net ELSE 0
                D_Net == IF k \in dkeys THEN d(k).D_Net ELSE 0
            IN  [COA |-> k,
                 M_Debit |-> IF k \in mkeys THEN m(k).M_Debit ELSE 0,
                 M_Credit |-> IF k \in mkeys THEN m(k).M_Credit ELSE 0,
                 M_Net |-> M_Net,
                 D_Debit |-> IF k \in dkeys THEN d(k).D_Debit ELSE 0,
                 D_Credit |-> IF k \in dkeys THEN d(k).D_Credit ELSE 0,
                 D_Net |-> D_Net,
                 Net_Variance |-> M_Net - D_Net,
                 Abs_Variance |-> Abs(M_Net - D_Net)]]

\* A variance test that takes in an absolute variance of exactly 1.
over_one_inclusive(row) == row.Abs_Variance >= 1

\* merged['Abs_Variance'] > 1.0
over_one(row) == row.Abs_Variance > 1

\* merged['Abs_Variance'] <= 1.0
within_one(row) == row.Abs_Variance <= 1

\* (matched / total_coa * 100) if total_coa > 0 else 0, as the fraction
\* <<numerator, denominator>>.
match_rate_of(matched, total_coa) ==
    IF total_coa > 0 THEN <<matched * 100, total_coa>> ELSE <<0, 1>>

\* The record appended for month ym.
month_record(df_m, df_d, ym) ==
    LET m_slice == SelectSeq(df_m, LAMBDA r : to_period_M(r.Tanggal) = ym)
        d_slice == SelectSeq(df_d, LAMBDA r : to_period_M(r.Date) = ym)
        merged == month_merged(m_agg(m_slice), d_agg(d_slice))
        total_coa == Len(merged)
        matched == Len(SelectSeq(merged, within_one))
    IN  [YearMonth |-> ym,
         total_abs_variance |-> series_sum(Column(merged, LAMBDA r : r.Abs_Variance)),
         total_net_variance |-> series_sum(Column(merged, LAMBDA r : r.Net_Variance)),
         variance_count |-> Len(SelectSeq(merged, over_one)),
         matched_count |-> matched,
         total_coa |-> total_coa,
         match_rate |-> match_rate_of(matched, total_coa)]

\* pd.DataFrame(records)
monthly_records(df_m, df_d) ==
    LET months == all_months(df_m, df_d)
    IN  [i \in 1..Len(months) |-> month_record(df_m, df_d, months[i])]

\* VarianceForecaster().aggregate_monthly_variances(df_manual, df_daftra)
aggregate_monthly_variances(df_manual, df_daftra) ==
    /\ monthly_variances' = monthly_records(df_manual, df_daftra)
    /\ last' = Returned("aggregate_monthly_variances", <<>>)
    /\ UNCHANGED <<engine_vars, z_anomalies, if_anomalies, ml_anomalies, forecast,
                   detect_runs, tool_vars>>

(***************************************************************************)
(* The forecasting tab (ui/tab_ai_analysis.py): sheets of two months       *)
(* cleaned and reconciled, then aggregated by month.                       *)
(***************************************************************************)
MonthlyManualRows ==
    {ManualRow("2025-01-15", "1001", <<"1", "0", "1">>),
     ManualRow("2025-01-15", "1002", <<"3", "0", "3">>),
     ManualRow("2025-02-20", "1001", <<"0", "0", "0">>),
     ManualRow("2025-01-15", "N/A", <<"0", "2", "1">>)}

MonthlyDaftraRows ==
    {DaftraRow("2025-01-15", "1001", <<"0", "0", "0">>),
     DaftraRow("2025-01-15", "1002", <<"0", "0", "0">>),
     DaftraRow("2025-02-20", "1002", <<"1", "0", "1">>),
     DaftraRow("2025-02-20", "N/A", <<"0", "2", "1">>)}

MonthlyCleanManual ==
    /\ last.op = "__init__"
    /\ \E df \in TablesOver(MonthlyManualRows) : clean_manual_data(df)

MonthlyCleanDaftra ==
    /\ last.op = "clean_manual_data"
    /\ \E df \in TablesOver(MonthlyDaftraRows) : clean_daftra_data(df)

AggregateMonthly ==
    /\ last.op = "reconcile_coa_level"
    /\ aggregate_monthly_variances(df_manual_clean, df_daftra_clean)

NextMonthly ==
    \/ MonthlyCleanManual
    \/ MonthlyCleanDaftra
    \/ ReconcileCoa
    \/ AggregateMonthly

SpecMonthly == Init /\ [][NextMonthly]_vars

(***************************************************************************)
(* The agents' tools (ai/tools.py) and AurixCrew.set_context               *)
(* (agents/orchestrator.py).  Every crew of the process writes to and      *)
(* reads from the one module-level _DATA_STORE.                            *)
(***************************************************************************)
\* The objects handed to set_data_context.
PyDataFrame(rows) == [t |-> "DataFrame", rows |-> rows]
PyDict(items) == [t |-> "dict", items |-> items]

\* AurixCrew.set_context(coa_recon, txn_detail, summary, ml_anomalies) of
\* crew, which calls set_data_context with the same four arguments;
\* omitted tells that the caller left ml_anomalies to its default None.
set_context(crew, coa, txn, summ, ml, omitted) ==
    /\ DATA_STORE' = [coa_recon |-> coa, txn_detail |-> txn, summary |-> summ,
                      ml_anomalies |-> ml]
    /\ crew_context' = [crew_context EXCEPT ![crew] = DATA_STORE']
    /\ last' = Returned("set_context", [crew |-> crew, omitted |-> omitted])
    /\ UNCHANGED <<engine_vars, z_anomalies, if_anomalies, ml_anomalies, forecast,
                   detect_runs, monthly_variances, tool_call>>

\* What a tool invoked for crew read under key of the store, what that
\* crew's latest set_context had put under the key, and what the tool gave.
ToolReturned(tool, crew, key, result) ==
    [tool |-> tool, crew |-> crew, raised |-> FALSE, read |-> DATA_STORE[key],
     own |-> IF crew_context[crew] = PyNone THEN PyNone ELSE crew_context[crew][key],
     result |-> result]

ToolRaised(tool, crew, key, error) ==
    [tool |-> tool, crew |-> crew, raised |-> TRUE, read |-> DATA_STORE[key],
     own |-> IF crew_context[crew] = PyNone THEN PyNone ELSE crew_context[crew][key],
     result |-> error]

\* A tool invocation: the call recorded, nothing else changed.
invoked(call) ==
    /\ tool_call' = call
    /\ last' = [op |-> call.tool, raised |-> call.raised, df |-> <<>>]
    /\ UNCHANGED <<engine_vars, z_anomalies, if_anomalies, ml_anomalies, forecast,
                   detect_runs, monthly_variances, DATA_STORE, crew_context>>

\* f"{x:,.2f}" of a whole amount below 1000 in absolute value, "nan" of a
\* missing one.
fixed2(x) == IF isna(x) THEN "nan" ELSE ToString(x) \o ".00"

\* f"{num / den * 100:.1f}" for 0 <= num, 0 < den: the percentage in tenths,
\* rounded to the nearest.
percent1(num, den) ==
    LET tenths == (2000 * num + den) \div (2 * den)
    IN  ToString(tenths \div 10) \o "." \o ToString(tenths % 10)

\* "\n".join(lines)
RECURSIVE join_lines(_)
join_lines(lines) ==
    IF lines = <<>> THEN ""
    ELSE IF Len(lines) = 1 THEN lines[1]
    ELSE lines[1] \o "\n" \o join_lines(Tail(lines))

\* df.head(n)
head(rows, n) == SubSeq(rows, 1, IF Len(rows) < n THEN Len(rows) ELSE n)

\* str(date)[:10] of a date yyyymmdd
date10(d) ==
    LET two(k) == IF k < 10 THEN "0" \o ToString(k) ELSE ToString(k)
    IN  ToString(d \div 10000) \o "-" \o two((d \div 100) % 100) \o "-" \o two(d % 100)

\* f"COA {int(row['COA']) if pd.notna(row['COA']) else 'N/A'}"
coa_text(c) == IF isna(c) THEN "N/A" ELSE ToString(c)

\* The f-string get_reconciliation_summary returns for summary dict s.
summary_text(s) ==
    "Total COA: " \o ToString(item(s, "total_coa_accounts").n)
      \o ", Match Rate: "
      \o percent1(item(s, "matched_count").n + item(s, "tolerance_count").n,
                  item(s, "total_coa_accounts").n) \o "%, "
      \o "Matched: " \o ToString(item(s, "matched_count").n)
      \o ", Tolerance: " \o ToString(item(s, "tolerance_count").n) \o ", "
      \o "Variance: " \o ToString(item(s, "variance_count").n)
      \o ", Unmatched Manual: " \o ToString(item(s, "unmatched_manual").n) \o ", "
      \o "Unmatched Daftra: " \o ToString(item(s, "unmatched_daftra").n) \o ", "
      \o "Total Net Variance: SAR " \o fixed2(item(s, "total_net_variance").n)

\* (matched_count + tolerance_count) / total_coa_accounts with Python ints:
\* ZeroDivisionError when total_coa_accounts is 0.
divides_by_zero(s) == item(s, "total_coa_accounts").n = 0

\* get_reconciliation_summary.invoke({}) on behalf of crew
get_reconciliation_summary(crew) ==
    LET s == DATA_STORE.summary
        tool == "get_reconciliation_summary"
    IN  invoked(IF s = PyNone
                THEN ToolReturned(tool, crew, "summary", "No reconciliation data available.")
                ELSE IF divides_by_zero(s.items)
                THEN ToolRaised(tool, crew, "summary", "ZeroDivisionError")
                ELSE ToolReturned(tool, crew, "summary", summary_text(s.items)))

\* get_top_variances.invoke({"n": n}); the account table of the model has
\* no Account_Name column, so row.get('Account_Name', '') is ''.
get_top_variances(crew, n) ==
    LET df == DATA_STORE.coa_recon
        tool == "get_top_variances"
        top == head(df.rows, n)
    IN  invoked(IF df = PyNone
                THEN ToolReturned(tool, crew, "coa_recon", "No data available.")
                ELSE ToolReturned(tool, crew, "coa_recon",
                        join_lines([i \in 1..Len(top) |->
                            "COA " \o coa_text(top[i].COA) \o ":  | Net Var: SAR "
                              \o fixed2(top[i].Net_Variance)
                              \o " | Status: " \o top[i].Status])))

\* get_anomalies.invoke({}); the description of a finding is not part of
\* the model's findings and is left out of the line.
get_anomalies(crew) ==
    LET anomalies == DATA_STORE.ml_anomalies
        tool == "get_anomalies"
    IN  invoked(IF anomalies = PyNone \/ anomalies = PyList(<<>>)
                THEN ToolReturned(tool, crew, "ml_anomalies", "No anomalies detected.")
                ELSE ToolReturned(tool, crew, "ml_anomalies",
                        join_lines([i \in 1..Len(anomalies.xs) |->
                            "[" \o anomalies.xs[i].severity \o "] "
                              \o anomalies.xs[i].type \o " - COA "
                              \o (IF anomalies.xs[i].coa.t = "int"
                                  THEN ToString(anomalies.xs[i].coa.n)
                                  ELSE anomalies.xs[i].coa.s) \o ": "])))

\* get_transaction_details.invoke({"coa_code": coa_code, "source": source});
\* the listing of the model has no Description column.
get_transaction_details(crew, coa_code, source) ==
    LET df == DATA_STORE.txn_detail
        tool == "get_transaction_details"
        of_coa == SelectSeq(df.rows, LAMBDA r : r.COA = coa_code)
        filtered == IF source # "ALL"
                    THEN SelectSeq(of_coa, LAMBDA r : r.Source = source)
                    ELSE of_coa
        shown == head(filtered, 20)
    IN  invoked(IF df = PyNone
                THEN ToolReturned(tool, crew, "txn_detail", "No data available.")
                ELSE IF Len(filtered) = 0
                THEN ToolReturned(tool, crew, "txn_detail",
                        "No transactions found for COA " \o ToString(coa_code) \o ".")
                ELSE ToolReturned(tool, crew, "txn_detail",
                        join_lines([i \in 1..Len(shown) |->
                            "[" \o shown[i].Source \o "] " \o date10(shown[i].Date)
                              \o " | D: " \o fixed2(shown[i].Debit)
                              \o " | C: " \o fixed2(shown[i].Credit)
                              \o " | Net: " \o fixed2(shown[i].Net) \o " | "])))

(***************************************************************************)
(* The multi-agent tab (ui/tab_ai_analysis.py, _setup_crew): the run of    *)
(* the application, then a crew given the engine's results, and the        *)
(* summary tool invoked before or after that.                              *)
(***************************************************************************)
SetupCrew ==
    /\ last.op = "generate_variance_summary"
    /\ \E crew \in Crews :
          set_context(crew, PyDataFrame(coa_recon), PyDataFrame(txn_detail),
                      PyDict(summary), PyNone, FALSE)

InvokeSummaryTool ==
    /\ last.op \in {"__init__", "set_context"}
    /\ \E crew \in Crews : get_reconciliation_summary(crew)

NextTools ==
    \/ CleanManual
    \/ CleanDaftra
    \/ ReconcileCoa
    \/ ReconcileTxn
    \/ Summarise
    \/ SetupCrew
    \/ InvokeSummaryTool

SpecTools == Init /\ [][NextTools]_vars

(***************************************************************************)
(* Two crews of one process, each given the results of its own session     *)
(* (Streamlit serves every session from the same process and module) and   *)
(* having its tools invoked, in any interleaving.                          *)
(***************************************************************************)
\* The results of a session whose sheets hold one row each on account coa,
\* the manual row with mutation value net, reconciled at tolerance 0.
session(coa, net, anomalies) ==
    LET manual == manual_cleaned(<<ManualRow("2025-01-15", coa, <<net, "0", net>>)>>)
        daftra == daftra_cleaned(<<DaftraRow("2025-01-15", coa, <<"0", "0", "0">>)>>)
        recon == CHOOSE r \in coa_level(manual, daftra, 0) : TRUE
    IN  [coa_recon |-> PyDataFrame(recon),
         txn_detail |-> PyDataFrame(txn_level(manual, daftra, NoFilter)),
         summary |-> PyDict(variance_summary(recon)),
         ml_anomalies |-> PyList(anomalies)]

Sessions ==
    {session("1001", "1", <<>>),
     session("1002", "3",
             <<[severity |-> "HIGH", type |-> "Isolation Forest Anomaly",
                coa |-> PyInt(1002), amount |-> 3, method |-> "isolation_forest"]>>)}

CrewSetContext ==
    \E crew \in Crews, s \in Sessions, omitted \in BOOLEAN :
        set_context(crew, s.coa_recon, s.txn_detail, s.summary,
                    IF omitted THEN PyNone ELSE s.ml_anomalies, omitted)

\* A crew's tools are invoked once it has called set_context.
HasContext(crew) == crew_context[crew] # PyNone

CrewGetSummary ==
    \E crew \in Crews : HasContext(crew) /\ get_reconciliation_summary(crew)

CrewGetTopVariances ==
    \E crew \in Crews, n \in {1, 10} : HasContext(crew) /\ get_top_variances(crew, n)

CrewGetAnomalies ==
    \E crew \in Crews : HasContext(crew) /\ get_anomalies(crew)

CrewGetTransactionDetails ==
    \E crew \in Crews, coa_code \in {1001, 1002}, source \in {"ALL", "MANUAL"} :
        HasContext(crew) /\ get_transaction_details(crew, coa_code, source)

NextCrews ==
    \/ CrewSetContext
    \/ CrewGetSummary
    \/ CrewGetTopVariances
    \/ CrewGetAnomalies
    \/ CrewGetTransactionDetails

SpecCrews == Init /\ [][NextCrews]_vars

(***************************************************************************)
(* AuditLogEntry constructed directly, as the unit tests do: any           *)
(* timestamp, action, details and user.                                    *)
(***************************************************************************)
Timestamps == {"2025-01-01T00:00:00", "2025-01-01T00:00:01"}

Actions == {"TEST", "TEST2"}

Users == {"System", "auditor"}

\* Details payloads: an int, the same digits as text, a numpy integer (no
\* JSON type, so written through str), an int key and the same key as
\* text, a list and a tuple of the same items, and one two-key dict built
\* in both insertion orders.
DetailsPayloads ==
    {<<<<PyStr("a"), PyInt(1)>>, <<PyStr("b"), PyInt(2)>>>>,
     <<<<PyStr("b"), PyInt(2)>>, <<PyStr("a"), PyInt(1)>>>>,
     <<<<PyStr("rows"), PyInt(5)>>>>,
     <<<<PyStr("rows"), PyStr("5")>>>>,
     <<<<PyStr("rows"), PyObject("5")>>>>,
     <<<<PyInt(1), PyStr("x")>>>>,
     <<<<PyStr("1"), PyStr("x")>>>>,
     <<<<PyStr("cols"), PyList(<<PyInt(1), PyInt(2)>>)>>>>,
     <<<<PyStr("cols"), PyTuple(<<PyInt(1), PyInt(2)>>)>>>>}

NewEntry ==
    /\ Len(entries) < MaxEntries
    /\ \E ts \in Timestamps, action \in Actions,
          details \in DetailsPayloads, user \in Users :
            entries' = Append(entries, AuditLogEntry(ts, action, details, user))
    /\ UNCHANGED <<ai_vars, tolerance_amount, audit_log, now, have, df_manual_clean,
                   df_daftra_clean, coa_recon, txn_detail, summary, last>>

NextChecksum == NewEntry

SpecChecksum == Init /\ [][NextChecksum]_vars

(***************************************************************************)
(* Properties.  The account-level ones speak of the table coa_recon and of *)
(* the two cleaned tables reconcile_coa_level was given, which no later    *)
(* operation of the run changes.                                           *)
(***************************************************************************)
Reconciled == "coa_recon" \in have

Summarised == "summary" \in have

Rows(table) == {table[i] : i \in 1..Len(table)}

\* The account codes of the rows of each cleaned table; a row whose code
\* cell was no number has no code.
ManualCodes == {r.COA_Daftra : r \in Rows(df_manual_clean)} \ {NaN}
DaftraCodes == {r.Account_Code : r \in Rows(df_daftra_clean)} \ {NaN}

\* Sum of the mutation values of the rows at a set of positions.
RECURSIVE SumNilaiMutasi(_, _)
SumNilaiMutasi(table, positions) ==
    IF positions = {} THEN 0
    ELSE LET i == CHOOSE j \in positions : TRUE
         IN  table[i].Nilai_Mutasi + SumNilaiMutasi(table, positions \ {i})

ManualAt(code) == {i \in 1..Len(df_manual_clean) : df_manual_clean[i].COA_Daftra = code}
DaftraAt(code) == {i \in 1..Len(df_daftra_clean) : df_daftra_clean[i].Account_Code = code}

\* The status the specification gives an account present on both sides.
StatusByTolerance(net_variance, T) ==
    IF net_variance = 0 THEN MATCHED
    ELSE IF Abs(net_variance) <= T THEN TOLERANCE
    ELSE VARIANCE

\* C1: an account with rows on both sides is MATCHED when its Net_Variance
\* is 0, TOLERANCE when 0 < |Net_Variance| <= T and VARIANCE when
\* |Net_Variance| > T, for every tolerance T, negative ones included.
C1_StatusFollowsTolerance ==
    Reconciled =>
        \A r \in Rows(coa_recon) :
            (r.COA \in ManualCodes /\ r.COA \in DaftraCodes) =>
                r.Status = StatusByTolerance(r.Net_Variance, tolerance_amount)

\* C2: an account with rows only in the manual table is UNMATCHED_MANUAL
\* with the ERP side's debit, credit, net and count 0; an account with rows
\* only in the ERP table is UNMATCHED_DAFTRA with the manual side's four 0;
\* whatever the net variance and the tolerance.
C2_AbsentSideDecidesStatus ==
    Reconciled =>
        /\ \A code \in ManualCodes \ DaftraCodes :
             \E r \in Rows(coa_recon) :
                /\ r.COA = code
                /\ r.Status = UNMATCHED_MANUAL
                /\ r.Daftra_Debit = 0 /\ r.Daftra_Credit = 0
                /\ r.Daftra_Net = 0 /\ r.Daftra_TxnCount = 0
        /\ \A code \in DaftraCodes \ ManualCodes :
             \E r \in Rows(coa_recon) :
                /\ r.COA = code
                /\ r.Status = UNMATCHED_DAFTRA
                /\ r.Manual_Debit = 0 /\ r.Manual_Credit = 0
                /\ r.Manual_Net = 0 /\ r.Manual_TxnCount = 0
        /\ \A r \in Rows(coa_recon) :
                /\ r.COA \in ManualCodes \ DaftraCodes => r.Status = UNMATCHED_MANUAL
                /\ r.COA \in DaftraCodes \ ManualCodes => r.Status = UNMATCHED_DAFTRA

\* C2 witness: a manual-only account whose net variance of 0 is within the
\* tolerance, beside an ERP-only account whose variance exceeds it.
C2_Witness ==
    /\ Reconciled
    /\ tolerance_amount = 0
    /\ \E r \in Rows(coa_recon) :
          r.COA \in ManualCodes \ DaftraCodes /\ r.Net_Variance = 0
    /\ \E r \in Rows(coa_recon) :
          r.COA \in DaftraCodes \ ManualCodes /\ r.Abs_Variance > 0

\* C3: the account table has exactly one row for each account code of either
\* cleaned table and no row for any other code.
C3_OneRowPerCode ==
    Reconciled =>
        /\ {r.COA : r \in Rows(coa_recon)} = ManualCodes \cup DaftraCodes
        /\ \A i, j \in 1..Len(coa_recon) :
              coa_recon[i].COA = coa_recon[j].COA => i = j

\* C3 witness: a code with two manual rows, another code only on the ERP
\* side, and a row without a code.
C3_Witness ==
    /\ Reconciled
    /\ \E code \in ManualCodes : Cardinality(ManualAt(code)) = 2
    /\ DaftraCodes \ ManualCodes # {}
    /\ \E r \in Rows(df_daftra_clean) : r.Account_Code = NaN
    /\ Len(coa_recon) = 2

\* C4: in every row the three variances are manual minus ERP, Abs_Variance
\* is |Net_Variance|, and the two nets are the sums of the rows' mutation
\* values.
C4_VariancesAreManualMinusDaftra ==
    Reconciled =>
        \A r \in Rows(coa_recon) :
            /\ r.Debit_Variance = r.Manual_Debit - r.Daftra_Debit
            /\ r.Credit_Variance = r.Manual_Credit - r.Daftra_Credit
            /\ r.Net_Variance = r.Manual_Net - r.Daftra_Net
            /\ r.Abs_Variance = Abs(r.Net_Variance)
            /\ r.Manual_Net = SumNilaiMutasi(df_manual_clean, ManualAt(r.COA))
            /\ r.Daftra_Net = SumNilaiMutasi(df_daftra_clean, DaftraAt(r.COA))

\* C4 witness: an account on both sides whose net variance is negative and
\* differs from debit variance minus credit variance.
C4_Witness ==
    /\ Reconciled
    /\ \E r \in Rows(coa_recon) :
          /\ r.Manual_TxnCount = 2 /\ r.Daftra_TxnCount = 2
          /\ r.Net_Variance < 0
          /\ r.Net_Variance # r.Debit_Variance - r.Credit_Variance

MaxAbsVariance ==
    IF coa_recon = <<>> THEN 0
    ELSE CHOOSE m \in {r.Abs_Variance : r \in Rows(coa_recon)} :
            \A r \in Rows(coa_recon) : r.Abs_Variance <= m

\* C5: the account table is in descending Abs_Variance order, and the
\* summary's largest_variance_coa and largest_variance_amount are those of
\* the row at index 0, the amount being the largest Abs_Variance.
C5_SortedAndLargestFirst ==
    /\ Reconciled =>
          \A i, j \in 1..Len(coa_recon) :
              i < j => coa_recon[i].Abs_Variance >= coa_recon[j].Abs_Variance
    /\ (Summarised /\ coa_recon # <<>>) =>
          /\ item(summary, "largest_variance_coa") = PyInt(coa_recon[1].COA)
          /\ item(summary, "largest_variance_amount") =
                PyInt(coa_recon[1].Abs_Variance)
          /\ item(summary, "largest_variance_amount") = PyInt(MaxAbsVariance)

\* C5 witness: a summary over two accounts of which the one with the higher
\* code has the larger variance, so the sort moved it to the front.
C5_Witness ==
    /\ Summarised
    /\ Len(coa_recon) = 2
    /\ coa_recon[1].COA > coa_recon[2].COA
    /\ coa_recon[1].Abs_Variance > coa_recon[2].Abs_Variance

HasKey(d, key) == \E i \in 1..Len(d) : d[i][1] = PyStr(key)

StatusCountKeys ==
    {"matched_count", "tolerance_count", "variance_count",
     "unmatched_manual", "unmatched_daftra"}

\* C6: the summary has all five status counts and they add up to
\* total_coa_accounts, the number of rows of the account table.
C6_StatusCountsAddUp ==
    Summarised =>
        /\ \A key \in StatusCountKeys : HasKey(summary, key)
        /\ item(summary, "total_coa_accounts") = PyInt(Len(coa_recon))
        /\ item(summary, "matched_count").n + item(summary, "tolerance_count").n
              + item(summary, "variance_count").n
              + item(summary, "unmatched_manual").n
              + item(summary, "unmatched_daftra").n
           = item(summary, "total_coa_accounts").n

\* C6 witness: a summary of two accounts of different status, three of the
\* five statuses not occurring.
C6_Witness ==
    /\ Summarised
    /\ item(summary, "total_coa_accounts") = PyInt(2)
    /\ item(summary, "variance_count") = PyInt(1)
    /\ item(summary, "unmatched_daftra") = PyInt(1)
    /\ item(summary, "matched_count") = PyInt(0)

\* C6 witness for the empty account table.
C6_WitnessEmpty ==
    /\ Summarised
    /\ coa_recon = <<>>

\* The rows of a raw table a cleaner is to keep: date present and parseable.
DatedManualRows(df) ==
    SelectSeq(df, LAMBDA r : r.Tanggal # MissingCell /\ Parseable(r.Tanggal))
DatedDaftraRows(df) ==
    SelectSeq(df, LAMBDA r : r.Date # MissingCell /\ Parseable(r.Date))

\* C7: a cleaner returns exactly the rows of its input whose date is present
\* and parseable, in their order, numbered _row_id = 1..N; rows with a
\* missing or unparseable date are dropped.
C7_CleanKeepsExactlyDatedRows ==
    /\ last.op = "clean_manual_data" =>
          LET kept == DatedManualRows(last.df)
          IN  /\ ~last.raised
              /\ Len(df_manual_clean) = Len(kept)
              /\ \A i \in 1..Len(kept) :
                    /\ df_manual_clean[i].row_id = i
                    /\ df_manual_clean[i].Tanggal = to_datetime(kept[i].Tanggal)
                    /\ df_manual_clean[i].COA_Daftra = to_numeric(kept[i].COA_Daftra)
                    /\ df_manual_clean[i].Debit_SAR = to_numeric(kept[i].Debit_SAR)
                    /\ df_manual_clean[i].Kredit_SAR = to_numeric(kept[i].Kredit_SAR)
                    /\ df_manual_clean[i].Nilai_Mutasi = to_numeric(kept[i].Nilai_Mutasi)
    /\ last.op = "clean_daftra_data" =>
          LET kept == DatedDaftraRows(last.df)
          IN  /\ ~last.raised
              /\ Len(df_daftra_clean) = Len(kept)
              /\ \A i \in 1..Len(kept) :
                    /\ df_daftra_clean[i].row_id = i
                    /\ df_daftra_clean[i].Date = to_datetime(kept[i].Date)
                    /\ df_daftra_clean[i].Account_Code = to_numeric(kept[i].Account_Code)
                    /\ df_daftra_clean[i].Debit = to_numeric(kept[i].Debit)
                    /\ df_daftra_clean[i].Credit = to_numeric(kept[i].Credit)
                    /\ df_daftra_clean[i].Nilai_Mutasi = to_numeric(kept[i].Nilai_Mutasi)

Cleaners == {"clean_manual_data", "clean_daftra_data"}

\* The entries a step appended to the log.
Appended == SubSeq(audit_log', Len(audit_log) + 1, Len(audit_log'))

\* C8: every call of a cleaner appends exactly two entries, CLEAN_<side>_START
\* with the input row count and then CLEAN_<side>_END with the output row
\* count, so that no START is left without its END.
C8_CleanLogsStartThenEnd ==
    [][(audit_log' # audit_log /\ last'.op \in Cleaners) =>
          LET side == IF last'.op = "clean_manual_data" THEN "MANUAL" ELSE "DAFTRA"
              out == IF last'.op = "clean_manual_data"
                     THEN df_manual_clean' ELSE df_daftra_clean'
          IN  /\ Len(audit_log') = Len(audit_log) + 2
              /\ SubSeq(audit_log', 1, Len(audit_log)) = audit_log
              /\ Appended[1].action = "CLEAN_" \o side \o "_START"
              /\ item(Appended[1].details, "rows") = PyInt(Len(last'.df))
              /\ Appended[2].action = "CLEAN_" \o side \o "_END"
              /\ item(Appended[2].details, "rows_cleaned") = PyInt(Len(out))]_vars

\* The actions of the entries a call leaves in the log.
EntriesOfCall(call) ==
    CASE call.op = "clean_manual_data" ->
            IF call.raised THEN <<"CLEAN_MANUAL_START">>
            ELSE <<"CLEAN_MANUAL_START", "CLEAN_MANUAL_END">>
      [] call.op = "clean_daftra_data" ->
            IF call.raised THEN <<"CLEAN_DAFTRA_START">>
            ELSE <<"CLEAN_DAFTRA_START", "CLEAN_DAFTRA_END">>
      [] call.op = "reconcile_coa_level" -> <<"COA_RECON_START", "COA_RECON_END">>
      [] call.op = "reconcile_transaction_level" ->
            <<"TXN_RECON_START", "TXN_RECON_END">>
      [] call.op = "generate_variance_summary" -> <<"SUMMARY_GENERATED">>

EntryFields == {"timestamp", "action", "details", "user"}

\* C10: two entries that differ in exactly one of timestamp, action, details
\* and user carry different checksums, for every pair of distinct details
\* payloads.
C10_OneFieldChangesChecksum ==
    \A i, j \in 1..Len(entries) :
        Cardinality({f \in EntryFields : entries[i][f] # entries[j][f]}) = 1
            => entries[i].checksum # entries[j].checksum

\* Python's dict equality: the same items, whatever the insertion order.
dict_eq(d1, d2) ==
    {d1[i] : i \in 1..Len(d1)} = {d2[i] : i \in 1..Len(d2)}

\* C11: two entries built from equal timestamp, action, details and user
\* carry equal checksums (the checksum is a function of these four fields
\* alone).
C11_EqualFieldsEqualChecksum ==
    \A i, j \in 1..Len(entries) :
        (/\ entries[i].timestamp = entries[j].timestamp
         /\ entries[i].action = entries[j].action
         /\ dict_eq(entries[i].details, entries[j].details)
         /\ entries[i].user = entries[j].user)
            => entries[i].checksum = entries[j].checksum

\* The same statement for details that are equal item by item in the same
\* insertion order.
C11_SameOrderEqualChecksum ==
    \A i, j \in 1..Len(entries) :
        (/\ entries[i].timestamp = entries[j].timestamp
         /\ entries[i].action = entries[j].action
         /\ entries[i].details = entries[j].details
         /\ entries[i].user = entries[j].user)
            => entries[i].checksum = entries[j].checksum

\* The filter the last call of reconcile_transaction_level was given, as its
\* TXN_RECON_START entry records it.
Listed == last.op = "reconcile_transaction_level"
coa_filter == audit_log[Len(audit_log) - 1].details[1][2]
Selected(code) == coa_filter = NoFilter \/ code = coa_filter.n

\* The rows the listing is to hold: every selected row of either cleaned
\* table, in the listing's columns.
SelectedManual == SelectSeq(df_manual_clean, LAMBDA r : Selected(r.COA_Daftra))
SelectedDaftra == SelectSeq(df_daftra_clean, LAMBDA r : Selected(r.Account_Code))
ExpectedListing ==
    [i \in 1..Len(SelectedManual) |->
        [Date |-> SelectedManual[i].Tanggal, COA |-> SelectedManual[i].COA_Daftra,
         Debit |-> SelectedManual[i].Debit_SAR, Credit |-> SelectedManual[i].Kredit_SAR,
         Net |-> SelectedManual[i].Nilai_Mutasi, RowID |-> SelectedManual[i].row_id,
         Source |-> "MANUAL"]]
    \o
    [i \in 1..Len(SelectedDaftra) |->
        [Date |-> SelectedDaftra[i].Date, COA |-> SelectedDaftra[i].Account_Code,
         Debit |-> SelectedDaftra[i].Debit, Credit |-> SelectedDaftra[i].Credit,
         Net |-> SelectedDaftra[i].Nilai_Mutasi, RowID |-> SelectedDaftra[i].row_id,
         Source |-> "DAFTRA"]]
Occurrences(rows, r) == Cardinality({i \in 1..Len(rows) : rows[i] = r})

\* C12: the listing reconcile_transaction_level returns holds, as a
\* multiset, exactly the manual rows and the ERP rows whose account code is
\* the filter (all rows without a filter): its length is the number of
\* selected manual rows plus the number of selected ERP rows, and with a
\* filter every row of it carries the filter's account code.
C12_ListingIsSelectedRows ==
    Listed =>
        /\ Len(txn_detail) = Len(SelectedManual) + Len(SelectedDaftra)
        /\ \A r \in {txn_detail[i] : i \in 1..Len(txn_detail)}
                    \cup {ExpectedListing[i] : i \in 1..Len(ExpectedListing)} :
               Occurrences(txn_detail, r) = Occurrences(ExpectedListing, r)
        /\ coa_filter # NoFilter =>
               \A i \in 1..Len(txn_detail) : txn_detail[i].COA = coa_filter.n

\* C12 witness: a filtered listing of rows of both sources, with rows of
\* other accounts left out on both sides.
C12_Witness ==
    /\ Listed
    /\ coa_filter # NoFilter
    /\ Len(SelectedManual) >= 1 /\ Len(SelectedManual) < Len(df_manual_clean)
    /\ Len(SelectedDaftra) >= 1 /\ Len(SelectedDaftra) < Len(df_daftra_clean)

\* a is greater than b in one column; a missing value counts as greater than
\* every value present.
Greater(a, b) == ~isna(b) /\ (isna(a) \/ a > b)

\* x is greater than y in the lexicographic order of (COA, Date, Net).
LexGreater(x, y) ==
    \/ Greater(x.COA, y.COA)
    \/ x.COA = y.COA /\ Greater(x.Date, y.Date)
    \/ x.COA = y.COA /\ x.Date = y.Date /\ Greater(x.Net, y.Net)

\* C13: the listing reconcile_transaction_level returns is ascending by
\* (account code, date, net amount): of two consecutive rows the earlier is
\* never greater than the later in that lexicographic order.
C13_ListingAscending ==
    Listed =>
        \A i \in 1..(Len(txn_detail) - 1) :
            ~LexGreater(txn_detail[i], txn_detail[i + 1])

\* C13 witness: a listing the sort had to reorder, with two rows of one
\* account on different dates and two rows of one account and date with
\* different net amounts.
C13_Witness ==
    /\ Listed
    /\ txn_detail # ExpectedListing
    /\ \E i, j \in 1..Len(txn_detail) :
          /\ txn_detail[i].COA = txn_detail[j].COA
          /\ txn_detail[i].Date < txn_detail[j].Date
    /\ \E i, j \in 1..Len(txn_detail) :
          /\ txn_detail[i].COA = txn_detail[j].COA
          /\ txn_detail[i].Date = txn_detail[j].Date
          /\ txn_detail[i].Net < txn_detail[j].Net

ZScored == last.op = "detect_zscore_anomalies"

\* The findings of the last call's table at another threshold.
ZFindingsAt(threshold) ==
    detect_zscore_anomalies(last.df.coa_recon, threshold, last.df.rounds)

\* Every finding of xs is in ys, counted with its repetitions.
SubBag(xs, ys) ==
    \A i \in 1..Len(xs) : Occurrences(xs, xs[i]) <= Occurrences(ys, xs[i])

\* C16: detect_zscore_anomalies is monotone in its threshold: on one account
\* table every finding reported at a threshold is reported at every lower
\* threshold too, so a higher threshold never reports more findings.
C16_HigherThresholdFewerFindings ==
    ZScored =>
        \A t \in Thresholds :
            /\ t <= last.df.threshold =>
                  /\ SubBag(z_anomalies, ZFindingsAt(t))
                  /\ Len(z_anomalies) <= Len(ZFindingsAt(t))
            /\ t >= last.df.threshold =>
                  /\ SubBag(ZFindingsAt(t), z_anomalies)
                  /\ Len(ZFindingsAt(t)) <= Len(z_anomalies)

\* C16 witness: a call whose findings a higher threshold cuts down to
\* fewer, but not to none.
C16_Witness ==
    /\ ZScored
    /\ \E t \in Thresholds :
          /\ t > last.df.threshold
          /\ Len(ZFindingsAt(t)) > 0
          /\ Len(ZFindingsAt(t)) < Len(z_anomalies)

\* The non-null values of a variance column of the last call's table, and
\* the findings reported for that column.
ValuesOf(col) ==
    dropna([i \in 1..Len(last.df.coa_recon.rows) |-> last.df.coa_recon.rows[i][col]])
FindingsOf(col) ==
    SelectSeq(z_anomalies, LAMBDA a : a.type = "Z-Score Outlier (" \o col \o ")")
AllEqual(values) == \A i, j \in 1..Len(values) : values[i] = values[j]
VarianceColumns == {ZScoreColumns[i] : i \in 1..Len(ZScoreColumns)}

\* C17: detect_zscore_anomalies reports no finding for a variance column
\* that has fewer than 3 non-null values or whose values are all equal,
\* whatever the other columns hold.
C17_SkippedColumnNoFinding ==
    ZScored =>
        \A col \in VarianceColumns \cap last.df.coa_recon.columns :
            (Len(ValuesOf(col)) < 3 \/ AllEqual(ValuesOf(col)))
                => FindingsOf(col) = <<>>

\* The same statement for the calls whose float mean is exact.
C17_NoFindingWhenMeanExact ==
    (ZScored /\ ~last.df.rounds) => C17_SkippedColumnNoFinding

\* A call that skips the net variance column and reports a finding for the
\* debit variance column.
C17_OtherColumnEvaluated ==
    /\ ZScored
    /\ AllEqual(ValuesOf("Net_Variance"))
    /\ FindingsOf("Net_Variance") = <<>>
    /\ FindingsOf("Debit_Variance") # <<>>

MLDetected == last.op = "detect_all"

\* Every finding the two detectors produced, and a severity's place in
\* HIGH, MEDIUM, LOW.
Produced == z_anomalies \o if_anomalies
SeverityPlace(severity) ==
    CASE severity = "HIGH" -> 1 [] severity = "MEDIUM" -> 2 [] severity = "LOW" -> 3
SameKey(a, b) == a.coa = b.coa /\ a.method = b.method

\* C14: the list detect_all returns never holds two findings with the same
\* (account code, detection method) key, and the finding it keeps for a key
\* is one the detectors produced for that key, of the highest severity
\* among them.
C14_OneFindingPerKeyHighestKept ==
    MLDetected =>
        /\ \A i, j \in 1..Len(ml_anomalies) :
               i # j => ~SameKey(ml_anomalies[i], ml_anomalies[j])
        /\ \A i \in 1..Len(ml_anomalies) :
               /\ \E k \in 1..Len(Produced) : Produced[k] = ml_anomalies[i]
               /\ \A k \in 1..Len(Produced) :
                      SameKey(Produced[k], ml_anomalies[i]) =>
                          SeverityPlace(ml_anomalies[i].severity)
                              <= SeverityPlace(Produced[k].severity)

\* C14 witness: a key for which a MEDIUM finding was produced before a HIGH
\* one, and the list holds the HIGH one.
C14_Witness ==
    /\ MLDetected
    /\ \E k, l \in 1..Len(Produced) :
          /\ k < l
          /\ SameKey(Produced[k], Produced[l])
          /\ Produced[k].severity = "MEDIUM"
          /\ Produced[l].severity = "HIGH"
          /\ \E i \in 1..Len(ml_anomalies) : ml_anomalies[i] = Produced[l]

\* The findings that were produced and whose key the returned list lacks.
IsDropped(a) == \A i \in 1..Len(ml_anomalies) : ~SameKey(a, ml_anomalies[i])

\* C15: the list detect_all returns is ordered HIGH, then MEDIUM, then LOW,
\* has at most 15 entries, and no finding left out by the cut has a
\* strictly higher severity than a finding kept.
C15_SortedAndCutAtFifteen ==
    MLDetected =>
        /\ Len(ml_anomalies) <= 15
        /\ \A i \in 1..(Len(ml_anomalies) - 1) :
               SeverityPlace(ml_anomalies[i].severity)
                   <= SeverityPlace(ml_anomalies[i + 1].severity)
        /\ \A k \in 1..Len(Produced) :
               IsDropped(Produced[k]) =>
                   \A i \in 1..Len(ml_anomalies) :
                       SeverityPlace(Produced[k].severity)
                           >= SeverityPlace(ml_anomalies[i].severity)

\* C15 witness: a list of 15 findings, HIGH and MEDIUM, with a produced
\* finding cut off, and with a MEDIUM finding produced before a HIGH one.
C15_Witness ==
    /\ MLDetected
    /\ Len(ml_anomalies) = 15
    /\ ml_anomalies[1].severity = "HIGH"
    /\ ml_anomalies[15].severity = "MEDIUM"
    /\ \E k \in 1..Len(Produced) : IsDropped(Produced[k])
    /\ \E k, l \in 1..Len(Produced) :
          k < l /\ Produced[k].severity = "MEDIUM" /\ Produced[l].severity = "HIGH"

Forecasted == last.op = "forecast_linear"

\* C18: forecast_linear on a monthly table of fewer than 3 rows returns a
\* result with an "error" marker and no forecast, and does not raise.
C18_ShortHistoryGivesErrorMarker ==
    (Forecasted /\ Len(last.df.monthly_df) < 3) =>
        /\ ~last.raised
        /\ "error" \in DOMAIN forecast
        /\ "forecast" \notin DOMAIN forecast

\* C18 witness: a call on a table of 2 months that returned the marker.
C18_Witness ==
    /\ Forecasted
    /\ Len(last.df.monthly_df) = 2
    /\ forecast = InsufficientData

\* C19: for every history of at least 3 months and every periods_ahead,
\* forecast_linear returns exactly periods_ahead forecast entries, each with
\* a value >= 0.
C19_ForecastCountAndFloor ==
    (Forecasted /\ Len(last.df.monthly_df) >= 3) =>
        /\ ~last.raised
        /\ "forecast" \in DOMAIN forecast
        /\ Len(forecast.forecast) = last.df.periods_ahead
        /\ \A j \in 1..Len(forecast.forecast) : forecast.forecast[j].value[1] >= 0

\* The same statement for at least one period ahead.
C19_FloorWhenPeriodsAhead ==
    (Forecasted /\ last.df.periods_ahead >= 1) => C19_ForecastCountAndFloor

\* A forecast whose fitted line is below 0 at a projected period and whose
\* reported value there is 0.
C19_FlooredForecast ==
    /\ Forecasted /\ ~last.raised
    /\ "forecast" \in DOMAIN forecast
    /\ forecast.slope[1] < 0
    /\ \E j \in 1..Len(forecast.forecast) : forecast.forecast[j].value = <<0, 1>>
    /\ forecast.forecast[1].value[1] > 0

\* C20: no core operation raises on empty tables: reconcile_coa_level on
\* two empty cleaned tables returns zero account rows, and
\* generate_variance_summary on an empty account table returns
\* total_coa_accounts = 0, all five status counts 0, largest_variance_coa =
\* None and largest_variance_amount = 0.
C20_EmptyTablesGiveEmptyResults ==
    /\ (last.raised /\ last.op \in Cleaners) => last.df # <<>>
    /\ (Reconciled /\ df_manual_clean = <<>> /\ df_daftra_clean = <<>>) =>
            coa_recon = <<>>
    /\ (Summarised /\ coa_recon = <<>>) =>
            /\ item(summary, "total_coa_accounts") = PyInt(0)
            /\ \A key \in StatusCountKeys :
                   HasKey(summary, key) /\ item(summary, key) = PyInt(0)
            /\ item(summary, "largest_variance_coa") = PyNone
            /\ item(summary, "largest_variance_amount") = PyInt(0)

\* C20 witness: both raw sheets empty, cleaned, reconciled at both levels
\* and summarised.
C20_Witness ==
    /\ Summarised
    /\ last.op = "generate_variance_summary"
    /\ df_manual_clean = <<>> /\ df_daftra_clean = <<>>
    /\ coa_recon = <<>> /\ txn_detail = <<>>
    /\ audit_log[2].details[1][2] = PyInt(0)
    /\ audit_log[4].details[1][2] = PyInt(0)

\* Cells that are text but no number.
NonNumericCells == {"abc", "-", "n/a", "N/A"}
NumericColumnsManual == {"COA_Daftra", "Debit_SAR", "Kredit_SAR", "Nilai_Mutasi"}
NumericColumnsDaftra == {"Account_Code", "Debit", "Credit", "Nilai_Mutasi"}

\* A cleaned table whose i-th row is the i-th dated row of the sheet, with
\* every non-numeric cell of a numeric column missing and every "200.00"
\* the number 200.
Coerced(sheet_rows, clean, columns) ==
    /\ Len(clean) = Len(sheet_rows)
    /\ \A i \in 1..Len(sheet_rows) : \A col \in columns :
           /\ sheet_rows[i][col] \in NonNumericCells => isna(clean[i][col])
           /\ sheet_rows[i][col] = "200.00" => clean[i][col] = 200

\* C21: in both cleaners a non-numeric cell of a debit, credit, mutation
\* value or account code column becomes a missing value while its row is
\* kept (its date being valid), and the numeric string "200.00" becomes the
\* number 200.0.
C21_NonNumericCellsBecomeMissing ==
    /\ (last.op = "clean_manual_data" /\ ~last.raised) =>
           Coerced(DatedManualRows(last.df), df_manual_clean, NumericColumnsManual)
    /\ (last.op = "clean_daftra_data" /\ ~last.raised) =>
           Coerced(DatedDaftraRows(last.df), df_daftra_clean, NumericColumnsDaftra)

\* C21 witness: a cleaned manual table of two rows, one with a missing
\* debit that was text, one with the debit 200 that was "200.00".
C21_Witness ==
    /\ last.op = "clean_manual_data" /\ ~last.raised
    /\ Len(df_manual_clean) = 2
    /\ \E i, j \in 1..2 :
          /\ DatedManualRows(last.df)[i].Debit_SAR = "abc"
          /\ isna(df_manual_clean[i].Debit_SAR)
          /\ DatedManualRows(last.df)[j].Debit_SAR = "200.00"
          /\ df_manual_clean[j].Debit_SAR = 200

Aggregated == last.op = "aggregate_monthly_variances"

\* Every row of both cleaned tables falls in one calendar month.
OneMonth == Len(all_months(df_manual_clean, df_daftra_clean)) = 1

\* The accounts reconcile_coa_level classifies MATCHED or WITHIN_TOLERANCE.
ReconciledWithin == CountStatus(coa_recon, MATCHED) + CountStatus(coa_recon, TOLERANCE)

\* C23: for cleaned tables of one calendar month, matched_count is the
\* number of accounts reconcile_coa_level with tolerance 1 classifies MATCHED
\* or WITHIN_TOLERANCE, and match_rate is that number as a percentage of all
\* accounts.
C23_MatchedCountIsReconciledCount ==
    (Aggregated /\ tolerance_amount = 1 /\ OneMonth)
        => /\ monthly_variances[1].matched_count = ReconciledWithin
           /\ monthly_variances[1].match_rate
                 = match_rate_of(ReconciledWithin, Len(coa_recon))

\* C23, where it holds: the counts agree when every account of the month
\* has rows in both tables.
C23_AgreesWhenBothSidesPresent ==
    (/\ Aggregated /\ tolerance_amount = 1 /\ OneMonth
     /\ CountStatus(coa_recon, UNMATCHED_MANUAL) = 0
     /\ CountStatus(coa_recon, UNMATCHED_DAFTRA) = 0)
        => /\ monthly_variances[1].matched_count = ReconciledWithin
           /\ monthly_variances[1].match_rate
                 = match_rate_of(ReconciledWithin, Len(coa_recon))

\* C23: a month with an account within tolerance on both sides.
C23_BothSidesWithinTolerance ==
    /\ Aggregated /\ tolerance_amount = 1 /\ OneMonth
    /\ CountStatus(coa_recon, TOLERANCE) = 1
    /\ monthly_variances[1].matched_count = 1

\* C24: one row per year-month of either table in ascending order; in
\* every row matched_count + variance_count = total_coa, 0 <= match_rate
\* <= 100, and match_rate = 0 when total_coa = 0.
C24_OneRowPerMonthCountsAddUp ==
    Aggregated =>
        /\ {monthly_variances[i].YearMonth : i \in 1..Len(monthly_variances)}
              = {to_period_M(df_manual_clean[i].Tanggal) : i \in 1..Len(df_manual_clean)}
                  \cup {to_period_M(df_daftra_clean[i].Date) : i \in 1..Len(df_daftra_clean)}
        /\ \A i, j \in 1..Len(monthly_variances) :
              i < j => monthly_variances[i].YearMonth < monthly_variances[j].YearMonth
        /\ \A i \in 1..Len(monthly_variances) :
              LET r == monthly_variances[i]
              IN  /\ r.matched_count + r.variance_count = r.total_coa
                  /\ 0 <= r.match_rate[1]
                  /\ r.match_rate[1] <= 100 * r.match_rate[2]
                  /\ r.total_coa = 0 => r.match_rate[1] = 0

\* C24 witness: two months, one whose rows all have a missing account code
\* (total_coa = 0) and one with an account of absolute variance exactly 1.
C24_Witness ==
    /\ Aggregated
    /\ Len(monthly_variances) = 2
    /\ \E i, j \in 1..2 :
          /\ monthly_variances[i].total_coa = 0
          /\ monthly_variances[j].total_abs_variance = 1
          /\ monthly_variances[j].matched_count = 1

SumManualTxnCount == series_sum(Column(coa_recon, LAMBDA r : r.Manual_TxnCount))

SumDaftraTxnCount == series_sum(Column(coa_recon, LAMBDA r : r.Daftra_TxnCount))

\* C26: the sum of Manual_TxnCount over the account table is the number of
\* rows of the cleaned manual table and the sum of Daftra_TxnCount the
\* number of rows of the cleaned ERP table, rows with a missing account code
\* included.
C26_EveryCleanedRowCounted ==
    Reconciled =>
        /\ SumManualTxnCount = Len(df_manual_clean)
        /\ SumDaftraTxnCount = Len(df_daftra_clean)

\* C26, where it holds: the sums are the numbers of cleaned rows whose
\* account code is a number.
C26_EveryCodedRowCounted ==
    Reconciled =>
        /\ SumManualTxnCount
              = Len(SelectSeq(df_manual_clean, LAMBDA r : ~isna(r.COA_Daftra)))
        /\ SumDaftraTxnCount
              = Len(SelectSeq(df_daftra_clean, LAMBDA r : ~isna(r.Account_Code)))

\* C26: two cleaned manual rows on different accounts, both counted.
C26_CodedRowsCounted ==
    /\ Reconciled
    /\ Len(df_manual_clean) = 2
    /\ SumManualTxnCount = 2
    /\ Len(coa_recon) = 2

\* C27: in every reachable state, after the caller modified the returned
\* summary too, each audit-log entry's stored checksum is the checksum
\* recomputed from its current timestamp, action, details and user.
C27_StoredChecksumIsRecomputed ==
    \A k \in 1..Len(audit_log) :
        audit_log[k].checksum =
            Checksum(audit_log[k].timestamp, audit_log[k].action,
                     audit_log[k].details, audit_log[k].user)

\* C27, where it holds: the engine's own operations leave every entry with
\* the checksum of its fields.
C27_ChecksumHoldsUntilCallerWrites ==
    last.op # "summary.__setitem__" => C27_StoredChecksumIsRecomputed

\* C27: a summary was generated and logged.
C27_SummaryLogged ==
    /\ last.op = "generate_variance_summary"
    /\ audit_log[Len(audit_log)].details = summary

\* The target values of the history the last forecast was asked for.
History ==
    [i \in 1..Len(last.df.monthly_df) |-> last.df.monthly_df[i][last.df.target_col]]

\* A forecast was returned for a history of at least 3 months.
Trended == Forecasted /\ ~last.raised /\ Len(last.df.monthly_df) >= 3

\* |slope| < 1% of the mean of the history, the slope being the fraction
\* forecast.slope and the mean series_sum(History) / Len(History).
SlopeBelowOnePercentOfMean ==
    100 * Len(History) * Abs(forecast.slope[1]) < series_sum(History) * forecast.slope[2]

\* C28: a history of at least 3 months whose target values are all equal
\* (all zero included) is labelled "stable"; in general the label is
\* "stable" exactly when |slope| < 1% of the mean, otherwise "increasing"
\* for a positive slope and "decreasing" for a negative one.
C28_TrendLabel ==
    Trended =>
        /\ AllEqual(History) => forecast.trend_direction = "stable"
        /\ forecast.trend_direction = "stable" <=> SlopeBelowOnePercentOfMean
        /\ (~SlopeBelowOnePercentOfMean /\ forecast.slope[1] > 0)
              => forecast.trend_direction = "increasing"
        /\ (~SlopeBelowOnePercentOfMean /\ forecast.slope[1] < 0)
              => forecast.trend_direction = "decreasing"

\* C28, where it holds: the same with the all-zero history left out.
C28_TrendLabelWhenNotAllZero ==
    (Trended /\ series_sum(History) # 0) => C28_TrendLabel

\* C28: a constant history above zero, labelled stable.
C28_ConstantHistoryStable ==
    /\ Trended
    /\ AllEqual(History)
    /\ History[1] > 0
    /\ forecast.trend_direction = "stable"

SummaryToolCalled == tool_call.tool = "get_reconciliation_summary"

\* C29: get_reconciliation_summary after set_data_context returns a text
\* and does not raise, for every summary generate_variance_summary produces
\* (that of an empty account table included); before any set_data_context
\* it returns "No reconciliation data available.".
C29_SummaryToolNeverRaises ==
    SummaryToolCalled =>
        /\ ~tool_call.raised
        /\ tool_call.read = PyNone
             => tool_call.result = "No reconciliation data available."

\* C29, where it holds: the tool returns when the summary counts at least
\* one account or when no context was set.
C29_ReturnsWhenAccountsExist ==
    (SummaryToolCalled /\ ~(Summarised /\ coa_recon = <<>>))
        => C29_SummaryToolNeverRaises

\* C29: the tool returned the text of a summary with two accounts.
C29_SummaryTextReturned ==
    /\ SummaryToolCalled /\ ~tool_call.raised
    /\ tool_call.read # PyNone
    /\ Len(coa_recon) = 2

\* C30: every tool call made for a crew reads what that crew's own latest
\* set_context put in the store, and a set_context that omits ml_anomalies
\* leaves the store's ml_anomalies None.
C30_ToolsReadOwnContext ==
    /\ tool_call.tool # "" => tool_call.read = tool_call.own
    /\ (last.op = "set_context" /\ last.df.omitted)
          => DATA_STORE.ml_anomalies = PyNone

\* C30, where it holds: the store's ml_anomalies is None after a
\* set_context that omits it, and a tool reads what the latest set_context
\* of any crew put there.
C30_OmittedAnomaliesAreNone ==
    (last.op = "set_context" /\ last.df.omitted)
        => DATA_STORE.ml_anomalies = PyNone

\* C30: a tool of a crew read the store after another crew with another
\* session had set its context.
C30_Interleaved ==
    /\ tool_call.tool # ""
    /\ \E other \in Crews \ {tool_call.crew} :
          /\ HasContext(other)
          /\ crew_context[other] # crew_context[tool_call.crew]

====
